---------------------------- MODULE Spec2Model ----------------------------
(***************************************************************************)
(* The email sequence enrollment processor of grantcrm:                    *)
(*   - POST /api/sequences/process (the batch runner) and processEnrollment*)
(*     (the advancer), src/unnamed/part_001 lines 134-433;                 *)
(*   - the manual operations on enrollment rows and sequences,             *)
(*     src/hooks/use-email.ts and                                          *)
(*     src/components/email/sequence-enrollments-manager.tsx.              *)
(*                                                                         *)
(* Every `await` of processEnrollment is one action: the awaited call       *)
(* takes effect and the synchronous code that follows it runs up to the     *)
(* next await.  The members of a batch are the tasks of one Promise.all and *)
(* interleave at their awaits.  Time is in seconds.                         *)
(***************************************************************************)
EXTENDS Integers, Sequences, FiniteSets, TLC

VARIABLES
    now,          \* the wall clock (new Date()), seconds
    rows,         \* table sequence_enrollments: id -> row
    sequences,    \* table email_sequences: id -> [steps, smtp_config_id, enrolled_count]
    contacts,     \* table contacts: id -> [email, first_name, last_name]
    templates,    \* table email_templates: id -> [body_html]
    smtp_configs, \* table smtp_configs: id -> [smtp_pass_encrypted]
    emails,       \* table emails: the rows inserted by the advancer
    sent,         \* the messages handed to the transport by sendMail
    activities,   \* table activities: the rows inserted by the advancer
    runs,         \* the invocations of POST: run id -> its local state
    runNo,        \* number of POST invocations so far
    faults,       \* number of transient failures (returned errors, throws) so far
    manual,       \* number of manual operations so far
    send          \* the invocation of POST /api/email/send: its local state

vars == <<now, rows, sequences, contacts, templates, smtp_configs,
          emails, sent, activities, runs, runNo, faults, manual, send>>

tables == <<sequences, contacts, templates, smtp_configs>>

-----------------------------------------------------------------------------
(* Program constants *)

BATCH_SIZE == 5

\* null of a nullable column (next_send_at, delay_days)
NULL == -1

Minute == 60
Hour == 3600
Day == 86400

-----------------------------------------------------------------------------
(* Bounds of the model *)

\* enrollments of the initial database (Spec)
NumEnr == 2
\* invocations of POST
MaxRuns == 3
\* transient failures injected over a behaviour
MaxFaults == 1
\* clock advances over a behaviour
MaxNow == 3600
\* manual operations (pause, resume, removal, sequence edit) over a behaviour
MaxManual == 1
\* invocations of POST /api/email/send
MaxSends == 1
\* largest delay value of a step (SpecDelay)
MaxDelay == 2
\* tokens of a template body (SpecBody)
MaxBody == 2
\* operations on the enrollment table (SpecEnroll)
MaxOps == 3

RunIds == {1}

\* outcomes of an awaited persistence call: it returns data, it returns
\* { error }, or it throws
Outcomes == {"ok", "error", "throw"}

-----------------------------------------------------------------------------
(* Helpers *)

Min(a, b) == IF a <= b THEN a ELSE b

RECURSIVE SetToSeq(_)
\* the elements of a set of integers in ascending order
SetToSeq(S) ==
    IF S = {} THEN <<>>
    ELSE LET m == CHOOSE x \in S : \A y \in S : x <= y
         IN  <<m>> \o SetToSeq(S \ {m})

RECURSIVE CountIf(_, _)
\* results.filter(r => r.status === st).length
CountIf(details, st) ==
    IF details = <<>> THEN 0
    ELSE (IF Head(details).status = st THEN 1 ELSE 0) + CountIf(Tail(details), st)

-----------------------------------------------------------------------------
(* Records *)

Accounts == {"a1", "a2"}

Step(t, v, u) == [template_id |-> t, delay_days |-> v, delay_unit |-> u]

\* a nullable text column: null, or a string
Null == [isNull |-> TRUE, text |-> ""]

Str(s) == [isNull |-> FALSE, text |-> s]

Contact(email, first_name, last_name) ==
    [email |-> email, first_name |-> first_name, last_name |-> last_name]

\* a text is a sequence of tokens: a placeholder, or a stretch of other text
Template(body_html) == [body_html |-> body_html]

\* the body of the templates of the initial database
HelloBody == <<"Hi ", "{{first_name}}">>

\* EnrollmentUpdate: the optional fields of the object given to update()
NoUpdate ==
    [current_step |-> NULL, has_next_send_at |-> FALSE, next_send_at |-> NULL,
     status |-> ""]

\* no error caught
NoError == [code |-> "", response |-> "", message |-> ""]

\* the errors transporter.sendMail rejects with: code, the SMTP response (if
\* the server answered) and the library's message
SendErrors ==
    {[code |-> c, response |-> rsp, message |-> "send_failed"] :
        c \in {"EAUTH", "ETIMEDOUT", "ESOCKET"}, rsp \in {"", "550"}}

\* a task of Promise.all that has not been called yet (a later batch); err is
\* the error its catch block caught from sendMail
PendingTask ==
    [pc |-> "pending", status |-> "", message |-> "", updates |-> NoUpdate,
     err |-> NoError, template |-> <<>>]

NoResponse ==
    [status |-> 0, success |-> "absent", processed |-> 0, successCount |-> 0,
     failureCount |-> 0, details |-> <<>>, error |-> ""]

IdleRun ==
    [phase |-> "idle", no |-> 0, at |-> 0, user |-> FALSE, enrollments |-> <<>>,
     i |-> 0,
     tasks |-> <<>>, transporters |-> {},
     decrypts |-> [a \in Accounts |-> 0], creates |-> [a \in Accounts |-> 0],
     response |-> NoResponse]

\* POST /api/email/send before its first invocation
IdleSend ==
    [pc |-> "idle", no |-> 0, account_id |-> "", status |-> 0, error |-> "",
     err |-> NoError]

\* return { id, status, message } of processEnrollment; the message of the
\* catch block (err.message) names the call that threw
Return(task, st, msg) ==
    [task EXCEPT !.pc = "done", !.status = st, !.message = msg]

-----------------------------------------------------------------------------
(* The due-set query of POST *)

\* mutant: the query without .eq('status', 'active')
IsDue_AnyStatus(row, t) ==
    row.next_send_at = NULL \/ row.next_send_at <= t

\* .eq('status', 'active').or(`next_send_at.lte.${now},next_send_at.is.null`)
IsDue(row, t) ==
    /\ row.status = "active"
    /\ (row.next_send_at = NULL \/ row.next_send_at <= t)

\* the row with its joined contact and sequence
Joined(id) ==
    [id |-> id,
     sequence_id |-> rows[id].sequence_id,
     contact_id |-> rows[id].contact_id,
     current_step |-> rows[id].current_step,
     status |-> rows[id].status,
     next_send_at |-> rows[id].next_send_at,
     contact |-> contacts[rows[id].contact_id],
     sequence |-> sequences[rows[id].sequence_id]]

\* mutant: the query has no filter, it returns every row
DueEnrollments_Unfiltered(t) ==
    LET ids == SetToSeq(DOMAIN rows)
    IN  [k \in 1..Len(ids) |-> Joined(ids[k])]

DueEnrollments(t) ==
    LET ids == SetToSeq({id \in DOMAIN rows : IsDue(rows[id], t)})
    IN  [k \in 1..Len(ids) |-> Joined(ids[k])]

-----------------------------------------------------------------------------
(* processEnrollment, up to its first await *)

Begin(enrollment) ==
    LET steps == enrollment.sequence.steps
    IN  IF enrollment.contact.email = ""
        THEN Return(PendingTask, "error", "no_contact_email")
        ELSE IF enrollment.current_step >= Len(steps)
        THEN [PendingTask EXCEPT !.pc = "complete"]
        ELSE [PendingTask EXCEPT !.pc = "template"]

\* mutant: the slice has no end, every remaining enrollment is started
StartBatch_Unbounded(enrollments, tasks, i) ==
    [t \in 1..Len(enrollments) |->
        IF t \in (i + 1)..Len(enrollments) /\ tasks[t].pc = "pending"
        THEN Begin(enrollments[t])
        ELSE tasks[t]]

\* batch.map(e => processEnrollment(...)) for the batch that starts at index i
StartBatch(enrollments, tasks, i) ==
    [t \in 1..Len(enrollments) |->
        IF t \in (i + 1)..Min(i + BATCH_SIZE, Len(enrollments))
        THEN Begin(enrollments[t])
        ELSE tasks[t]]

BatchOf(run) == (run.i + 1)..Min(run.i + BATCH_SIZE, Len(run.enrollments))

\* a transient failure is drawn only while the budget lasts
Fault(o) ==
    IF o = "ok" THEN faults' = faults
    ELSE faults < MaxFaults /\ faults' = faults + 1

-----------------------------------------------------------------------------
(* POST /api/sequences/process, up to the start of the first batch *)

Report(results) ==
    [NoResponse EXCEPT !.status = 200, !.success = "true",
                       !.processed = Len(results),
                       !.successCount = CountIf(results, "success"),
                       !.failureCount = CountIf(results, "error"),
                       !.details = results]

\* mutant: the caller is not checked
POST_AuthUnchecked(r, user, o) ==
    /\ runs[r].phase \in {"idle", "done"}
    /\ runNo < MaxRuns
    /\ runNo' = runNo + 1
    /\ o \in {"ok", "error"}
    /\ (user \/ o = "ok")
    /\ Fault(o)
    /\ LET fresh == [IdleRun EXCEPT !.no = runNo + 1, !.at = now, !.user = user]
           due == DueEnrollments(now)
       IN  runs' = [runs EXCEPT ![r] =
             IF o = "error"
             THEN [fresh EXCEPT !.phase = "done",
                     !.response = [NoResponse EXCEPT !.status = 500,
                                                     !.error = "query_failed"]]
             ELSE IF Len(due) = 0
             THEN [fresh EXCEPT !.phase = "done",
                     !.response = [NoResponse EXCEPT !.status = 200,
                                                     !.success = "true"]]
             ELSE [fresh EXCEPT !.phase = "running", !.enrollments = due,
                     !.tasks = StartBatch(due, [t \in 1..Len(due) |-> PendingTask], 0)]]
    /\ UNCHANGED <<now, rows, tables, emails, sent, activities, manual, send>>

\* lines 367-415
POST(r, user, o) ==
    /\ runs[r].phase \in {"idle", "done"}
    /\ runNo < MaxRuns
    /\ runNo' = runNo + 1
    /\ o \in {"ok", "error"}
    /\ (user \/ o = "ok")
    /\ Fault(o)
    /\ LET fresh == [IdleRun EXCEPT !.no = runNo + 1, !.at = now, !.user = user]
           due == DueEnrollments(now)
       IN  runs' = [runs EXCEPT ![r] =
             IF ~user
             THEN [fresh EXCEPT !.phase = "done",
                     !.response = [NoResponse EXCEPT !.status = 401,
                                                     !.error = "Unauthorized"]]
             ELSE IF o = "error"
             THEN [fresh EXCEPT !.phase = "done",
                     !.response = [NoResponse EXCEPT !.status = 500,
                                                     !.error = "query_failed"]]
             ELSE IF Len(due) = 0
             THEN [fresh EXCEPT !.phase = "done",
                     !.response = [NoResponse EXCEPT !.status = 200,
                                                     !.success = "true"]]
             ELSE [fresh EXCEPT !.phase = "running", !.enrollments = due,
                     !.tasks = StartBatch(due, [t \in 1..Len(due) |-> PendingTask], 0)]]
    /\ UNCHANGED <<now, rows, tables, emails, sent, activities, manual, send>>

-----------------------------------------------------------------------------
(* processEnrollment, one action per await *)

Enrollment(r, t) == runs[r].enrollments[t]

\* steps[currentStepIndex] (the model's sequences are 1-based)
CurrentStep(enrollment) == enrollment.sequence.steps[enrollment.current_step + 1]

At(r, t, pc) ==
    /\ runs[r].phase = "running"
    /\ t \in BatchOf(runs[r])
    /\ runs[r].tasks[t].pc = pc

\* mutant: the result of the template fetch is not checked
AfterTemplate_Unchecked(run, t, found) ==
    LET smtpId == run.enrollments[t].sequence.smtp_config_id
    IN  IF smtpId \in run.transporters
        THEN [run.tasks[t] EXCEPT !.pc = "insert_email"]
        ELSE [run.tasks[t] EXCEPT !.pc = "smtp"]

\* lines 208-220: after the template fetch
AfterTemplate(run, t, found) ==
    LET e == run.enrollments[t]
        smtpId == e.sequence.smtp_config_id
    IN  IF ~found
        THEN Return(run.tasks[t], "error", "template_not_found")
        ELSE IF smtpId = ""
        THEN Return(run.tasks[t], "error", "no_smtp_selected")
        ELSE IF smtpId \in run.transporters
        THEN [run.tasks[t] EXCEPT !.pc = "insert_email"]
        ELSE [run.tasks[t] EXCEPT !.pc = "smtp"]

FetchTemplate(r, t, o) ==
    /\ At(r, t, "template")
    /\ o \in {"ok", "error"}
    /\ Fault(o)
    /\ LET found == o = "ok" /\ CurrentStep(Enrollment(r, t)).template_id \in DOMAIN templates
           template == IF found
                       THEN templates[CurrentStep(Enrollment(r, t)).template_id].body_html
                       ELSE <<>>
       IN  runs' = [runs EXCEPT ![r].tasks[t] =
                      [AfterTemplate(runs[r], t, found) EXCEPT !.template = template]]
    /\ UNCHANGED <<now, rows, tables, emails, sent, activities, runNo, manual, send>>

\* decrypt() of lib/crypto throws on a ciphertext it cannot decrypt
DecryptThrows(cipher) == cipher = "corrupt"

\* mutant: the transport is cached before the credential is decrypted
AfterSmtpConfig_CachedFirst(run, t, found) ==
    LET smtpId == run.enrollments[t].sequence.smtp_config_id
        task == run.tasks[t]
    IN  IF ~found
        THEN [run EXCEPT !.tasks[t] = Return(task, "error", "smtp_not_found")]
        ELSE IF smtp_configs[smtpId].smtp_pass_encrypted = ""
        THEN [run EXCEPT !.tasks[t] = Return(task, "error", "no_password")]
        ELSE IF DecryptThrows(smtp_configs[smtpId].smtp_pass_encrypted)
        THEN [run EXCEPT !.decrypts[smtpId] = @ + 1,
                         !.transporters = @ \cup {smtpId},
                         !.tasks[t] = Return(task, "error", "decrypt_failed")]
        ELSE [run EXCEPT !.decrypts[smtpId] = @ + 1,
                         !.creates[smtpId] = @ + 1,
                         !.transporters = @ \cup {smtpId},
                         !.tasks[t].pc = "insert_email"]

\* lines 235-257: after the smtp_configs fetch
AfterSmtpConfig(run, t, found) ==
    LET smtpId == run.enrollments[t].sequence.smtp_config_id
        task == run.tasks[t]
    IN  IF ~found
        THEN [run EXCEPT !.tasks[t] = Return(task, "error", "smtp_not_found")]
        ELSE IF smtp_configs[smtpId].smtp_pass_encrypted = ""
        THEN [run EXCEPT !.tasks[t] = Return(task, "error", "no_password")]
        ELSE IF DecryptThrows(smtp_configs[smtpId].smtp_pass_encrypted)
        THEN [run EXCEPT !.decrypts[smtpId] = @ + 1,
                         !.tasks[t] = Return(task, "error", "decrypt_failed")]
        ELSE [run EXCEPT !.decrypts[smtpId] = @ + 1,
                         !.creates[smtpId] = @ + 1,
                         !.transporters = @ \cup {smtpId},
                         !.tasks[t].pc = "insert_email"]

FetchSmtpConfig(r, t, o) ==
    /\ At(r, t, "smtp")
    /\ o \in {"ok", "error"}
    /\ Fault(o)
    /\ LET smtpId == Enrollment(r, t).sequence.smtp_config_id
           found == o = "ok" /\ smtpId \in DOMAIN smtp_configs
       IN  runs' = [runs EXCEPT ![r] = AfterSmtpConfig(runs[r], t, found)]
    /\ UNCHANGED <<now, rows, tables, emails, sent, activities, runNo, manual, send>>

\* contact.first_name || ''
OrEmpty(field) == IF field.isNull THEN "" ELSE field.text

\* String.prototype.replace with a string as replacement: $$ stands for a
\* dollar sign and $& for the matched text
Expand(replacement, matched) ==
    IF replacement = "$&" THEN matched
    ELSE IF replacement = "$$" THEN "$"
    ELSE replacement

RECURSIVE Replace(_, _, _)
\* body.replace(/placeholder/g, replacement)
Replace(body, placeholder, replacement) ==
    IF body = <<>> THEN <<>>
    ELSE LET token == IF Head(body) = placeholder
                      THEN Expand(replacement, placeholder)
                      ELSE Head(body)
         IN  (IF token = "" THEN <<>> ELSE <<token>>)
               \o Replace(Tail(body), placeholder, replacement)

\* lines 268-273: Variable replacement
Body(template, contact) ==
    LET first == Replace(template, "{{first_name}}", OrEmpty(contact.first_name))
        last == Replace(first, "{{last_name}}", OrEmpty(contact.last_name))
    IN  Replace(last, "{{email}}", contact.email)

\* the identifier of the emails row a task inserts
EmailId(r, t) == <<runs[r].no, Enrollment(r, t).id>>

\* mutant: a failed emails insert does not stop the attempt
AfterInsertEmail_Proceeds(task, o) ==
    IF o = "throw" THEN Return(task, "error", "insert_email_threw")
    ELSE [task EXCEPT !.pc = "update_email"]

\* lines 293-296: after the emails insert
AfterInsertEmail(task, o) ==
    IF o = "ok" THEN [task EXCEPT !.pc = "update_email"]
    ELSE IF o = "error" THEN Return(task, "error", "email_log_failed")
    ELSE Return(task, "error", "insert_email_threw")

InsertEmailLog(r, t, o) ==
    /\ At(r, t, "insert_email")
    /\ o \in Outcomes
    /\ Fault(o)
    /\ emails' = IF o = "ok"
                 THEN emails \cup {[id |-> EmailId(r, t),
                                    enrollment_id |-> Enrollment(r, t).id,
                                    step |-> Enrollment(r, t).current_step,
                                    body_html |-> Body(runs[r].tasks[t].template,
                                                       Enrollment(r, t).contact),
                                    tracked |-> FALSE]}
                 ELSE emails
    /\ runs' = [runs EXCEPT ![r].tasks[t] = AfterInsertEmail(@, o)]
    /\ UNCHANGED <<now, rows, tables, sent, activities, runNo, manual, send>>

\* lines 302-305: the returned error is not looked at
AfterUpdateEmail(task, o) ==
    IF o = "throw" THEN Return(task, "error", "update_email_threw")
    ELSE [task EXCEPT !.pc = "send"]

UpdateEmailLog(r, t, o) ==
    /\ At(r, t, "update_email")
    /\ o \in Outcomes
    /\ Fault(o)
    /\ emails' = IF o = "ok"
                 THEN {IF m.id = EmailId(r, t) THEN [m EXCEPT !.tracked = TRUE] ELSE m
                       : m \in emails}
                 ELSE emails
    /\ runs' = [runs EXCEPT ![r].tasks[t] = AfterUpdateEmail(@, o)]
    /\ UNCHANGED <<now, rows, tables, sent, activities, runNo, manual, send>>

\* mutant: a rejected sendMail is swallowed and the enrollment advances
AfterSend_Swallowed(task, o, err) ==
    [task EXCEPT !.pc = "activity"]

\* lines 308-313 and 359-363: sendMail rejects on a transport failure and the
\* catch block reports err.message
AfterSend(task, o, err) ==
    IF o = "throw" THEN [Return(task, "error", err.message) EXCEPT !.err = err]
    ELSE [task EXCEPT !.pc = "activity"]

SendMail(r, t, o) ==
    /\ At(r, t, "send")
    /\ o \in {"ok", "throw"}
    /\ Fault(o)
    /\ sent' = IF o = "ok"
               THEN sent \cup {[email |-> EmailId(r, t),
                                id |-> Enrollment(r, t).id,
                                step |-> Enrollment(r, t).current_step,
                                html |-> Body(runs[r].tasks[t].template,
                                              Enrollment(r, t).contact)]}
               ELSE sent
    /\ \E err \in SendErrors :
          runs' = [runs EXCEPT ![r].tasks[t] = AfterSend(@, o, err)]
    /\ UNCHANGED <<now, rows, tables, emails, activities, runNo, manual, send>>

\* mutant: the unit is not looked at, every delay is in days
Delay_DaysOnly(step) ==
    LET delayValue == IF step.delay_days = NULL THEN 1 ELSE step.delay_days
    IN  delayValue * Day

\* mutant: delay_days || 1, an explicit 0 counts as missing
Delay_ZeroIsUnset(step) ==
    LET delayValue == IF step.delay_days \in {NULL, 0} THEN 1 ELSE step.delay_days
        delayUnit == IF step.delay_unit = "" THEN "days" ELSE step.delay_unit
    IN  IF delayUnit = "minutes" THEN delayValue * Minute
        ELSE IF delayUnit = "hours" THEN delayValue * Hour
        ELSE delayValue * Day

\* lines 336-345: the delay of a step, in seconds
Delay(step) ==
    LET delayValue == IF step.delay_days = NULL THEN 1 ELSE step.delay_days
        delayUnit == IF step.delay_unit = "" THEN "days" ELSE step.delay_unit
    IN  IF delayUnit = "minutes" THEN delayValue * Minute
        ELSE IF delayUnit = "hours" THEN delayValue * Hour
        ELSE delayValue * Day

\* mutant: the delay is taken from the step just sent
Updates_DelayOfSentStep(enrollment, t) ==
    LET steps == enrollment.sequence.steps
        nextStepIndex == enrollment.current_step + 1
    IN  IF nextStepIndex < Len(steps)
        THEN [NoUpdate EXCEPT !.current_step = nextStepIndex,
                              !.has_next_send_at = TRUE,
                              !.next_send_at = t + Delay(steps[nextStepIndex])]
        ELSE [NoUpdate EXCEPT !.current_step = nextStepIndex,
                              !.has_next_send_at = TRUE,
                              !.next_send_at = NULL,
                              !.status = "completed"]

\* mutant: the update to an existing step carries status = active
Updates_WritesStatus(enrollment, t) ==
    LET steps == enrollment.sequence.steps
        nextStepIndex == enrollment.current_step + 1
    IN  IF nextStepIndex < Len(steps)
        THEN [NoUpdate EXCEPT !.current_step = nextStepIndex,
                              !.has_next_send_at = TRUE,
                              !.next_send_at = t + Delay(steps[nextStepIndex + 1]),
                              !.status = "active"]
        ELSE [NoUpdate EXCEPT !.current_step = nextStepIndex,
                              !.has_next_send_at = TRUE,
                              !.next_send_at = NULL,
                              !.status = "completed"]

\* mutant: the update after the last step does not set status
Updates_LastStepStaysActive(enrollment, t) ==
    LET steps == enrollment.sequence.steps
        nextStepIndex == enrollment.current_step + 1
    IN  IF nextStepIndex < Len(steps)
        THEN [NoUpdate EXCEPT !.current_step = nextStepIndex,
                              !.has_next_send_at = TRUE,
                              !.next_send_at = t + Delay(steps[nextStepIndex + 1])]
        ELSE [NoUpdate EXCEPT !.current_step = nextStepIndex,
                              !.has_next_send_at = TRUE,
                              !.next_send_at = NULL]

\* lines 326-351: the update of the enrollment, computed at clock reading t
Updates(enrollment, t) ==
    LET steps == enrollment.sequence.steps
        nextStepIndex == enrollment.current_step + 1
    IN  IF nextStepIndex < Len(steps)
        THEN [NoUpdate EXCEPT !.current_step = nextStepIndex,
                              !.has_next_send_at = TRUE,
                              !.next_send_at = t + Delay(steps[nextStepIndex + 1])]
        ELSE [NoUpdate EXCEPT !.current_step = nextStepIndex,
                              !.has_next_send_at = TRUE,
                              !.next_send_at = NULL,
                              !.status = "completed"]

\* lines 316-351: the returned error of the activities insert is not looked at
AfterActivity(task, enrollment, t, o) ==
    IF o = "throw" THEN Return(task, "error", "activity_threw")
    ELSE [task EXCEPT !.pc = "update_enrollment", !.updates = Updates(enrollment, t)]

InsertActivity(r, t, o) ==
    /\ At(r, t, "activity")
    /\ o \in Outcomes
    /\ Fault(o)
    /\ activities' = IF o = "ok"
                     THEN activities \cup {[email |-> EmailId(r, t),
                                            id |-> Enrollment(r, t).id,
                                            step |-> Enrollment(r, t).current_step]}
                     ELSE activities
    /\ runs' = [runs EXCEPT ![r].tasks[t] = AfterActivity(@, Enrollment(r, t), now, o)]
    /\ UNCHANGED <<now, rows, tables, emails, sent, runNo, manual, send>>

\* update(u).eq('id', id): the fields u holds are written, the others kept
ApplyUpdate(row, u) ==
    [row EXCEPT !.current_step = IF u.current_step = NULL THEN @ ELSE u.current_step,
                !.next_send_at = IF u.has_next_send_at THEN u.next_send_at ELSE @,
                !.status = IF u.status = "" THEN @ ELSE u.status]

\* mutant: an update that throws has written the row
UpdateRow_WrittenBeforeThrow(id, u, o) ==
    IF o \in {"ok", "throw"} /\ id \in DOMAIN rows
    THEN [rows EXCEPT ![id] = ApplyUpdate(@, u)]
    ELSE rows

\* the table after update(u).eq('id', id) with outcome o: a row that is gone
\* matches nothing, a failed call writes nothing
UpdateRow(id, u, o) ==
    IF o = "ok" /\ id \in DOMAIN rows
    THEN [rows EXCEPT ![id] = ApplyUpdate(@, u)]
    ELSE rows

\* lines 353-358: the returned error of the update is not looked at
AfterUpdateEnrollment(task, o) ==
    IF o = "throw" THEN Return(task, "error", "update_threw")
    ELSE Return(task, "success", "sent")

UpdateEnrollment(r, t, o) ==
    /\ At(r, t, "update_enrollment")
    /\ o \in Outcomes
    /\ Fault(o)
    /\ rows' = UpdateRow(Enrollment(r, t).id, runs[r].tasks[t].updates, o)
    /\ runs' = [runs EXCEPT ![r].tasks[t] = AfterUpdateEnrollment(@, o)]
    /\ UNCHANGED <<now, tables, emails, sent, activities, runNo, manual, send>>

\* line 194: the update of the no-more-steps path
CompletedUpdate == [NoUpdate EXCEPT !.status = "completed"]

\* lines 192-196
AfterComplete(task, o) ==
    IF o = "throw" THEN Return(task, "error", "update_threw")
    ELSE Return(task, "success", "no_more_steps")

CompleteEnrollment(r, t, o) ==
    /\ At(r, t, "complete")
    /\ o \in Outcomes
    /\ Fault(o)
    /\ rows' = UpdateRow(Enrollment(r, t).id, CompletedUpdate, o)
    /\ runs' = [runs EXCEPT ![r].tasks[t] = AfterComplete(@, o)]
    /\ UNCHANGED <<now, tables, emails, sent, activities, runNo, manual, send>>

-----------------------------------------------------------------------------
(* POST: a batch's Promise.all resolves *)

\* mutant: results holds the results of the last batch only
Details_LastBatch(run) ==
    [k \in 1..Cardinality(BatchOf(run)) |->
        [id |-> run.enrollments[run.i + k].id,
         status |-> run.tasks[run.i + k].status,
         message |-> run.tasks[run.i + k].message]]

\* results after the last results.push(...batchResults)
Details(run) ==
    [t \in 1..Len(run.enrollments) |->
        [id |-> run.enrollments[t].id,
         status |-> run.tasks[t].status,
         message |-> run.tasks[t].message]]

AwaitBatch(r) ==
    /\ runs[r].phase = "running"
    /\ \A t \in BatchOf(runs[r]) : runs[r].tasks[t].pc = "done"
    /\ LET run == runs[r]
           i == run.i + BATCH_SIZE
       IN  runs' = [runs EXCEPT ![r] =
             IF i < Len(run.enrollments)
             THEN [run EXCEPT !.i = i,
                              !.tasks = StartBatch(run.enrollments, run.tasks, i)]
             ELSE [run EXCEPT !.phase = "done", !.response = Report(Details(run))]]
    /\ UNCHANGED <<now, rows, tables, emails, sent, activities, runNo, faults, manual, send>>

-----------------------------------------------------------------------------
(* POST /api/email/send, the single-message endpoint, one action per await *)

\* lines 119-128: the message of the catch block, by cause
Classify(error) ==
    IF error.code = "EAUTH"
    THEN "Authentication failed. Check SMTP username/password."
    ELSE IF error.code = "ETIMEDOUT"
    THEN "Connection timed out. Check SMTP Host/Port."
    ELSE IF error.response # "" THEN "SMTP Error: " \o error.response
    ELSE IF error.message # "" THEN error.message
    ELSE "Failed to send email"

\* return NextResponse.json(body, { status })
Respond(status, error) ==
    [send EXCEPT !.pc = "done", !.status = status, !.error = error]

\* the identifier of the emails row the request inserts (no run has number 0)
SendEmailId == <<0, send.no>>

\* lines 22-47: authentication, the fields, the account and its credential
SendPOST(user, complete, account_id) ==
    /\ send.pc \in {"idle", "done"}
    /\ send.no < MaxSends
    /\ LET fresh == [IdleSend EXCEPT !.no = send.no + 1, !.account_id = account_id]
       IN  send' =
             IF ~user
             THEN [fresh EXCEPT !.pc = "done", !.status = 401, !.error = "Unauthorized"]
             ELSE IF ~complete
             THEN [fresh EXCEPT !.pc = "done", !.status = 400,
                                !.error = "Missing required fields"]
             ELSE IF account_id \notin DOMAIN smtp_configs
             THEN [fresh EXCEPT !.pc = "done", !.status = 404,
                                !.error = "Account not found"]
             ELSE IF DecryptThrows(smtp_configs[account_id].smtp_pass_encrypted)
             THEN [fresh EXCEPT !.pc = "done", !.status = 500,
                                !.error = "decrypt_failed"]
             ELSE [fresh EXCEPT !.pc = "insert_email"]
    /\ UNCHANGED <<now, rows, tables, emails, sent, activities, runs, runNo, faults,
                   manual>>

\* lines 66-69 and the catch block: after the emails insert
SendAfterInsertEmail(o) ==
    IF o = "ok" THEN [send EXCEPT !.pc = "update_email"]
    ELSE IF o = "error" THEN Respond(500, "Failed to initialize email tracking")
    ELSE Respond(500, "insert_email_threw")

\* lines 49-69: 1. Create Email Record
SendInsertEmail(o) ==
    /\ send.pc = "insert_email"
    /\ o \in Outcomes
    /\ emails' = IF o = "ok"
                 THEN emails \cup {[id |-> SendEmailId, enrollment_id |-> NULL,
                                    step |-> NULL, body_html |-> <<>>,
                                    tracked |-> FALSE]}
                 ELSE emails
    /\ send' = SendAfterInsertEmail(o)
    /\ UNCHANGED <<now, rows, tables, sent, activities, runs, runNo, faults, manual>>

\* lines 71-76: 2. Inject Tracking; the returned error is not looked at
SendUpdateEmail(o) ==
    /\ send.pc = "update_email"
    /\ o \in Outcomes
    /\ emails' = IF o = "ok"
                 THEN {IF m.id = SendEmailId THEN [m EXCEPT !.tracked = TRUE] ELSE m
                       : m \in emails}
                 ELSE emails
    /\ send' = IF o = "throw" THEN Respond(500, "update_email_threw")
               ELSE [send EXCEPT !.pc = "send"]
    /\ UNCHANGED <<now, rows, tables, sent, activities, runs, runNo, faults, manual>>

\* lines 78-98: 3. Configure Nodemailer, 4. Send email
SendSendMail(o) ==
    /\ send.pc = "send"
    /\ o \in {"ok", "throw"}
    /\ sent' = IF o = "ok"
               THEN sent \cup {[email |-> SendEmailId, id |-> NULL, step |-> NULL,
                                html |-> <<>>]}
               ELSE sent
    /\ \E err \in SendErrors :
          send' = IF o = "throw"
                  THEN [Respond(500, Classify(err)) EXCEPT !.err = err]
                  ELSE [send EXCEPT !.pc = "activity"]
    /\ UNCHANGED <<now, rows, tables, emails, activities, runs, runNo, faults, manual>>

\* lines 100-109: Also Log Activity; the returned error is not looked at
SendInsertActivity(o) ==
    /\ send.pc = "activity"
    /\ o \in Outcomes
    /\ activities' = IF o = "ok"
                     THEN activities \cup {[email |-> SendEmailId, id |-> NULL,
                                            step |-> NULL]}
                     ELSE activities
    /\ send' = IF o = "throw" THEN Respond(500, "activity_threw")
               ELSE Respond(200, "")
    /\ UNCHANGED <<now, rows, tables, emails, sent, runs, runNo, faults, manual>>

-----------------------------------------------------------------------------
(* The manual operations and the clock *)

\* the manual operations of a behaviour are budgeted
Manual == manual < MaxManual

\* SELECT count(*) FROM sequence_enrollments WHERE sequence_id = s
CountEnrollments(rws, s) ==
    Cardinality({id \in DOMAIN rws : rws[id].sequence_id = s})

\* UPDATE email_sequences SET enrolled_count = (SELECT count(*) ...) WHERE id = s
SetEnrolledCount(seqs, rws, s) ==
    IF s \in DOMAIN seqs
    THEN [seqs EXCEPT ![s].enrolled_count = CountEnrollments(rws, s)]
    ELSE seqs

\* the trigger function that recounts the old sequence only (a variant)
update_sequence_stats_OldOnly(TG_OP, old, new, seqs, rws) ==
    IF TG_OP = "INSERT" THEN SetEnrolledCount(seqs, rws, new.sequence_id)
    ELSE IF TG_OP = "DELETE" THEN SetEnrolledCount(seqs, rws, old.sequence_id)
    ELSE IF old.sequence_id # new.sequence_id
         THEN SetEnrolledCount(seqs, rws, old.sequence_id)
         ELSE seqs

\* the trigger function update_sequence_stats(), run AFTER INSERT OR UPDATE
\* OR DELETE on sequence_enrollments FOR EACH ROW: seqs is email_sequences,
\* rws the table after the statement
update_sequence_stats(TG_OP, old, new, seqs, rws) ==
    IF TG_OP = "INSERT" THEN SetEnrolledCount(seqs, rws, new.sequence_id)
    ELSE IF TG_OP = "DELETE" THEN SetEnrolledCount(seqs, rws, old.sequence_id)
    ELSE IF old.sequence_id # new.sequence_id
         THEN SetEnrolledCount(SetEnrolledCount(seqs, rws, old.sequence_id),
                               rws, new.sequence_id)
         ELSE seqs

\* handleToggleStatus: pause an active enrollment, resume any other
ToggleStatus(id) ==
    /\ id \in DOMAIN rows
    /\ manual' = manual + 1
    /\ LET newStatus == IF rows[id].status = "active" THEN "paused" ELSE "active"
       IN  rows' = [rows EXCEPT ![id].status = newStatus]
    /\ UNCHANGED <<now, tables, emails, sent, activities, runs, runNo, faults, send>>

\* handleDelete / useDeleteEnrollment
DeleteEnrollment(id) ==
    /\ id \in DOMAIN rows
    /\ manual' = manual + 1
    /\ rows' = [k \in DOMAIN rows \ {id} |-> rows[k]]
    /\ sequences' = update_sequence_stats("DELETE", rows[id], rows[id], sequences, rows')
    /\ UNCHANGED <<now, contacts, templates, smtp_configs, emails, sent, activities,
                   runs, runNo, faults, send>>

\* useUpdateEmailSequence with updates = { steps }: the last step is removed
UpdateEmailSequence(s) ==
    /\ s \in DOMAIN sequences
    /\ Len(sequences[s].steps) > 0
    /\ manual' = manual + 1
    /\ sequences' = [sequences EXCEPT
                        ![s].steps = SubSeq(@, 1, Len(@) - 1)]
    /\ UNCHANGED <<now, rows, contacts, templates, smtp_configs, emails, sent,
                   activities, runs, runNo, faults, send>>

\* mutant: the new row is due a day after its creation
NewEnrollment_Tomorrow(sequence_id, contact_id, t) ==
    [sequence_id |-> sequence_id, contact_id |-> contact_id,
     status |-> "active", current_step |-> 0, next_send_at |-> t + Day]

\* useEnrollInSequence: a row as the enrollment operation creates it at time t
NewEnrollment(sequence_id, contact_id, t) ==
    [sequence_id |-> sequence_id, contact_id |-> contact_id,
     status |-> "active", current_step |-> 0, next_send_at |-> t]

\* the id of the row that the enrollment operation inserts for contact c:
\* fresh, since every operation has its own number
NewId(c) == manual * Cardinality(DOMAIN contacts) + c

\* useEnrollInSequence: one row per selected contact, inserted by one
\* statement; the trigger runs for each row, all of the same sequence
EnrollInSequence(sequence_id, contact_ids) ==
    /\ sequence_id \in DOMAIN sequences
    /\ contact_ids # {}
    /\ contact_ids \subseteq DOMAIN contacts
    /\ manual' = manual + 1
    /\ LET ids == {NewId(c) : c \in contact_ids}
           enrollment(id) ==
               NewEnrollment(sequence_id, CHOOSE c \in contact_ids : NewId(c) = id, now)
       IN  /\ rows' = [id \in DOMAIN rows \cup ids |->
                          IF id \in DOMAIN rows THEN rows[id] ELSE enrollment(id)]
           /\ sequences' = LET new == enrollment(CHOOSE id \in ids : TRUE)
                           IN  update_sequence_stats("INSERT", new, new, sequences, rows')
    /\ UNCHANGED <<now, contacts, templates, smtp_configs, emails, sent, activities,
                   runs, runNo, faults, send>>

\* useUpdateEnrollment with updates = { sequence_id }: the row moves to
\* another sequence, and the trigger runs
MoveEnrollment(id, sequence_id) ==
    /\ id \in DOMAIN rows
    /\ sequence_id \in DOMAIN sequences
    /\ manual' = manual + 1
    /\ rows' = [rows EXCEPT ![id].sequence_id = sequence_id]
    /\ sequences' = update_sequence_stats("UPDATE", rows[id], rows'[id], sequences, rows')
    /\ UNCHANGED <<now, contacts, templates, smtp_configs, emails, sent, activities,
                   runs, runNo, faults, send>>

\* the clock advances by d seconds
Tick(d) ==
    /\ now' = now + d
    /\ UNCHANGED <<rows, tables, emails, sent, activities, runs, runNo, faults, manual, send>>

-----------------------------------------------------------------------------
(* The initial database *)

\* what is wrong with the second sequence, its contacts or its account
Configs ==
    {"ok", "no_email", "no_template", "no_smtp_id", "smtp_missing", "no_password",
     "corrupt"}

InitTables(cfg) ==
    /\ sequences =
         [s \in {"s1", "s2"} |->
            IF s = "s1"
            THEN [steps |-> <<Step("t1", 0, "days"), Step("t2", 1, "hours")>>,
                  smtp_config_id |-> "a1",
                  enrolled_count |-> CountEnrollments(rows, s)]
            ELSE [steps |-> <<Step("t3", NULL, "")>>,
                  smtp_config_id |-> IF cfg = "no_smtp_id" THEN "" ELSE "a2",
                  enrolled_count |-> CountEnrollments(rows, s)]]
    /\ templates =
         [id \in {"t1", "t2"} \cup (IF cfg = "no_template" THEN {} ELSE {"t3"}) |->
            Template(HelloBody)]
    /\ smtp_configs =
         [a \in (IF cfg = "smtp_missing" THEN {"a1"} ELSE Accounts) |->
            [smtp_pass_encrypted |->
                IF a = "a1" THEN "good"
                ELSE IF cfg = "no_password" THEN ""
                ELSE IF cfg = "corrupt" THEN "corrupt"
                ELSE "good"]]

Init ==
    \E cfg \in Configs :
        /\ now = 0
        /\ rows = [id \in 1..NumEnr |->
                     NewEnrollment(IF id % 2 = 1 THEN "s1" ELSE "s2", id, 0)]
        /\ contacts = [id \in 1..NumEnr |->
                         Contact(IF id % 2 = 0 /\ cfg = "no_email" THEN "" ELSE "x",
                                 Str("Ann"), Null)]
        /\ InitTables(cfg)
        /\ emails = {}
        /\ sent = {}
        /\ activities = {}
        /\ runs = [r \in RunIds |-> IdleRun]
        /\ runNo = 0
        /\ faults = 0
        /\ manual = 0
        /\ send = IdleSend

Tasks(r) == 1..Len(runs[r].enrollments)

Next ==
    \/ \E r \in RunIds, user \in BOOLEAN, o \in Outcomes : POST(r, user, o)
    \/ \E r \in RunIds : \E t \in Tasks(r), o \in Outcomes : FetchTemplate(r, t, o)
    \/ \E r \in RunIds : \E t \in Tasks(r), o \in Outcomes : FetchSmtpConfig(r, t, o)
    \/ \E r \in RunIds : \E t \in Tasks(r), o \in Outcomes : InsertEmailLog(r, t, o)
    \/ \E r \in RunIds : \E t \in Tasks(r), o \in Outcomes : UpdateEmailLog(r, t, o)
    \/ \E r \in RunIds : \E t \in Tasks(r), o \in Outcomes : SendMail(r, t, o)
    \/ \E r \in RunIds : \E t \in Tasks(r), o \in Outcomes : InsertActivity(r, t, o)
    \/ \E r \in RunIds : \E t \in Tasks(r), o \in Outcomes : UpdateEnrollment(r, t, o)
    \/ \E r \in RunIds : \E t \in Tasks(r), o \in Outcomes : CompleteEnrollment(r, t, o)
    \/ \E r \in RunIds : AwaitBatch(r)
    \/ Manual /\ \E id \in DOMAIN rows : ToggleStatus(id)
    \/ Manual /\ \E id \in DOMAIN rows : DeleteEnrollment(id)
    \/ Manual /\ \E s \in DOMAIN sequences : UpdateEmailSequence(s)
    \/ now + Hour <= MaxNow /\ Tick(Hour)

Spec == Init /\ [][Next]_vars

-----------------------------------------------------------------------------
(* A run over more than one batch: BATCH_SIZE + 1 enrollments are due, the  *)
(* template of exactly one of them is missing, the others share one sending *)
(* account, and no call fails.                                               *)

BatchEnr == BATCH_SIZE + 1

InitBatch ==
    \E k \in 1..BatchEnr :
        /\ now = 0
        /\ rows = [id \in 1..BatchEnr |->
                     NewEnrollment(IF id = k THEN "s2" ELSE "s1", id, 0)]
        /\ contacts = [id \in 1..BatchEnr |-> Contact("x", Str("Ann"), Null)]
        /\ InitTables("no_template")
        /\ emails = {}
        /\ sent = {}
        /\ activities = {}
        /\ runs = [r \in RunIds |-> IdleRun]
        /\ runNo = 0
        /\ faults = 0
        /\ manual = 0
        /\ send = IdleSend

NextBatch ==
    \/ \E r \in RunIds : POST(r, TRUE, "ok")
    \/ \E r \in RunIds : \E t \in Tasks(r) : FetchTemplate(r, t, "ok")
    \/ \E r \in RunIds : \E t \in Tasks(r) : FetchSmtpConfig(r, t, "ok")
    \/ \E r \in RunIds : \E t \in Tasks(r) : InsertEmailLog(r, t, "ok")
    \/ \E r \in RunIds : \E t \in Tasks(r) : UpdateEmailLog(r, t, "ok")
    \/ \E r \in RunIds : \E t \in Tasks(r) : SendMail(r, t, "ok")
    \/ \E r \in RunIds : \E t \in Tasks(r) : InsertActivity(r, t, "ok")
    \/ \E r \in RunIds : \E t \in Tasks(r) : UpdateEnrollment(r, t, "ok")
    \/ \E r \in RunIds : AwaitBatch(r)

SpecBatch == InitBatch /\ [][NextBatch]_vars

-----------------------------------------------------------------------------
(* A run over two batches in which the credential of one sending account    *)
(* cannot be decrypted: one or two consecutive enrollments of the           *)
(* BATCH_SIZE + 1 due ones belong to the sequence of that account, the       *)
(* others to the sequence of the other account, and no call fails.           *)

InitDecrypt ==
    \E j \in 1..BatchEnr : \E k \in {j, Min(j + 1, BatchEnr)} :
        /\ now = 0
        /\ rows = [id \in 1..BatchEnr |->
                     NewEnrollment(IF id \in {j, k} THEN "s2" ELSE "s1", id, 0)]
        /\ contacts = [id \in 1..BatchEnr |-> Contact("x", Str("Ann"), Null)]
        /\ InitTables("corrupt")
        /\ emails = {}
        /\ sent = {}
        /\ activities = {}
        /\ runs = [r \in RunIds |-> IdleRun]
        /\ runNo = 0
        /\ faults = 0
        /\ manual = 0
        /\ send = IdleSend

SpecDecrypt == InitDecrypt /\ [][NextBatch]_vars

-----------------------------------------------------------------------------
(* The scenario of a 2-step sequence (delays 0 days, then 3 days): one       *)
(* enrollment at step 0, the first run at T0 = 0, no call failing, nobody     *)
(* intervening; the clock advances between and during the runs.              *)

\* the clock readings of the scenario: T0, T0 + 1 hour, T0 + 3 days + 1
\* second and the seconds around them
ScenarioTimes == {0, 1, 2, Hour, 3 * Day, 3 * Day + 1, 3 * Day + 2}

InitScenario ==
    /\ now = 0
    /\ rows = [id \in {1} |-> NewEnrollment("s1", 1, 0)]
    /\ contacts = [id \in {1} |-> Contact("x", Str("Ann"), Null)]
    /\ sequences = [s \in {"s1"} |->
                      [steps |-> <<Step("t1", 0, "days"), Step("t2", 3, "days")>>,
                       smtp_config_id |-> "a1",
                       enrolled_count |-> CountEnrollments(rows, s)]]
    /\ templates = [id \in {"t1", "t2"} |-> Template(HelloBody)]
    /\ smtp_configs = [a \in {"a1"} |-> [smtp_pass_encrypted |-> "good"]]
    /\ emails = {}
    /\ sent = {}
    /\ activities = {}
    /\ runs = [r \in RunIds |-> IdleRun]
    /\ runNo = 0
    /\ faults = 0
    /\ manual = 0
    /\ send = IdleSend

NextScenario ==
    \/ \E r \in RunIds : POST(r, TRUE, "ok")
    \/ \E r \in RunIds : \E t \in Tasks(r) : FetchTemplate(r, t, "ok")
    \/ \E r \in RunIds : \E t \in Tasks(r) : FetchSmtpConfig(r, t, "ok")
    \/ \E r \in RunIds : \E t \in Tasks(r) : InsertEmailLog(r, t, "ok")
    \/ \E r \in RunIds : \E t \in Tasks(r) : UpdateEmailLog(r, t, "ok")
    \/ \E r \in RunIds : \E t \in Tasks(r) : SendMail(r, t, "ok")
    \/ \E r \in RunIds : \E t \in Tasks(r) : InsertActivity(r, t, "ok")
    \/ \E r \in RunIds : \E t \in Tasks(r) : UpdateEnrollment(r, t, "ok")
    \/ \E r \in RunIds : AwaitBatch(r)
    \/ \E t \in ScenarioTimes : runNo >= 1 /\ t > now /\ Tick(t - now)

SpecScenario == InitScenario /\ [][NextScenario]_vars

-----------------------------------------------------------------------------
(* The delay of the next step: one enrollment at step 0 of a 2-step sequence *)
(* whose second step has any delay value (or none) and any unit (or none);   *)
(* no call fails, nobody intervenes, the clock advances between and during   *)
(* the runs.                                                                 *)

\* delay_days of the second step: missing, or 0..MaxDelay
DelayValues == {NULL} \cup 0..MaxDelay

\* delay_unit of the second step: missing, or one of the three units
DelayUnits == {"", "minutes", "hours", "days"}

\* the clock readings of the runs
DelayTimes == {0, 1, Minute, 2 * Minute, Hour, 2 * Hour, Day, 2 * Day}

InitDelay ==
    \E v \in DelayValues, u \in DelayUnits :
        /\ now = 0
        /\ rows = [id \in {1} |-> NewEnrollment("s1", 1, 0)]
        /\ contacts = [id \in {1} |-> Contact("x", Str("Ann"), Null)]
        /\ sequences = [s \in {"s1"} |->
                          [steps |-> <<Step("t1", 0, "days"), Step("t2", v, u)>>,
                           smtp_config_id |-> "a1",
                           enrolled_count |-> CountEnrollments(rows, s)]]
        /\ templates = [id \in {"t1", "t2"} |-> Template(HelloBody)]
        /\ smtp_configs = [a \in {"a1"} |-> [smtp_pass_encrypted |-> "good"]]
        /\ emails = {}
        /\ sent = {}
        /\ activities = {}
        /\ runs = [r \in RunIds |-> IdleRun]
        /\ runNo = 0
        /\ faults = 0
        /\ manual = 0
        /\ send = IdleSend

NextDelay ==
    \/ \E r \in RunIds : POST(r, TRUE, "ok")
    \/ \E r \in RunIds : \E t \in Tasks(r) : FetchTemplate(r, t, "ok")
    \/ \E r \in RunIds : \E t \in Tasks(r) : FetchSmtpConfig(r, t, "ok")
    \/ \E r \in RunIds : \E t \in Tasks(r) : InsertEmailLog(r, t, "ok")
    \/ \E r \in RunIds : \E t \in Tasks(r) : UpdateEmailLog(r, t, "ok")
    \/ \E r \in RunIds : \E t \in Tasks(r) : SendMail(r, t, "ok")
    \/ \E r \in RunIds : \E t \in Tasks(r) : InsertActivity(r, t, "ok")
    \/ \E r \in RunIds : \E t \in Tasks(r) : UpdateEnrollment(r, t, "ok")
    \/ \E r \in RunIds : AwaitBatch(r)
    \/ \E t \in DelayTimes : t > now /\ Tick(t - now)

SpecDelay == InitDelay /\ [][NextDelay]_vars

-----------------------------------------------------------------------------
(* The variable replacement: one enrollment at the only step of a sequence,  *)
(* the template body any text of up to MaxBody tokens, the contact's names   *)
(* null, empty or any of a few strings; no call fails, nobody intervenes.    *)

BodyTokens == {"{{first_name}}", "{{last_name}}", "{{email}}", "Hi "}

Bodies == UNION {[1..n -> BodyTokens] : n \in 0..MaxBody}

\* first_name, last_name of the contact
Names == {Null, Str(""), Str("Ann"), Str("$&"), Str("$$")}

InitBody ==
    \E body \in Bodies, first_name \in Names, last_name \in Names :
        /\ now = 0
        /\ rows = [id \in {1} |-> NewEnrollment("s1", 1, 0)]
        /\ contacts = [id \in {1} |-> Contact("x", first_name, last_name)]
        /\ sequences = [s \in {"s1"} |->
                          [steps |-> <<Step("t1", 0, "days")>>,
                           smtp_config_id |-> "a1",
                           enrolled_count |-> CountEnrollments(rows, s)]]
        /\ templates = [id \in {"t1"} |-> Template(body)]
        /\ smtp_configs = [a \in {"a1"} |-> [smtp_pass_encrypted |-> "good"]]
        /\ emails = {}
        /\ sent = {}
        /\ activities = {}
        /\ runs = [r \in RunIds |-> IdleRun]
        /\ runNo = 0
        /\ faults = 0
        /\ manual = 0
        /\ send = IdleSend

NextBody ==
    \/ \E r \in RunIds : POST(r, TRUE, "ok")
    \/ \E r \in RunIds : \E t \in Tasks(r) : FetchTemplate(r, t, "ok")
    \/ \E r \in RunIds : \E t \in Tasks(r) : FetchSmtpConfig(r, t, "ok")
    \/ \E r \in RunIds : \E t \in Tasks(r) : InsertEmailLog(r, t, "ok")
    \/ \E r \in RunIds : \E t \in Tasks(r) : UpdateEmailLog(r, t, "ok")
    \/ \E r \in RunIds : \E t \in Tasks(r) : SendMail(r, t, "ok")
    \/ \E r \in RunIds : \E t \in Tasks(r) : InsertActivity(r, t, "ok")
    \/ \E r \in RunIds : \E t \in Tasks(r) : UpdateEnrollment(r, t, "ok")
    \/ \E r \in RunIds : AwaitBatch(r)

SpecBody == InitBody /\ [][NextBody]_vars

-----------------------------------------------------------------------------
(* The enrollment table under the operations of the user interface: no row  *)
(* at first, two sequences whose steps all have a delay (the first step      *)
(* too); contacts are enrolled (the table holds up to NumEnr rows), rows     *)
(* are removed or moved to the other sequence, the processor runs and the    *)
(* clock advances; no call fails.                                            *)

\* the clock readings of the runs
EnrollTimes == {0, Hour}

InitEnroll ==
    /\ now = 0
    /\ rows = <<>>
    /\ contacts = [id \in 1..NumEnr |-> Contact("x", Str("Ann"), Null)]
    /\ sequences =
         [s \in {"s1", "s2"} |->
            [steps |-> IF s = "s1"
                       THEN <<Step("t1", 2, "days"), Step("t2", 1, "hours"),
                              Step("t3", 30, "minutes")>>
                       ELSE <<Step("t3", 1, "days")>>,
             smtp_config_id |-> "a1",
             enrolled_count |-> CountEnrollments(rows, s)]]
    /\ templates = [id \in {"t1", "t2", "t3"} |-> Template(HelloBody)]
    /\ smtp_configs = [a \in {"a1"} |-> [smtp_pass_encrypted |-> "good"]]
    /\ emails = {}
    /\ sent = {}
    /\ activities = {}
    /\ runs = [r \in RunIds |-> IdleRun]
    /\ runNo = 0
    /\ faults = 0
    /\ manual = 0
    /\ send = IdleSend

\* the operations of the user interface of a behaviour are budgeted
Operation == manual < MaxOps

NextEnroll ==
    \/ Operation /\ \E s \in DOMAIN sequences :
                        \E ids \in SUBSET DOMAIN contacts :
                            /\ Cardinality(DOMAIN rows) + Cardinality(ids) <= NumEnr
                            /\ EnrollInSequence(s, ids)
    \/ Operation /\ \E id \in DOMAIN rows : DeleteEnrollment(id)
    \/ Operation /\ \E id \in DOMAIN rows :
                        \E s \in DOMAIN sequences : MoveEnrollment(id, s)
    \/ \E r \in RunIds : POST(r, TRUE, "ok")
    \/ \E r \in RunIds : \E t \in Tasks(r) : FetchTemplate(r, t, "ok")
    \/ \E r \in RunIds : \E t \in Tasks(r) : FetchSmtpConfig(r, t, "ok")
    \/ \E r \in RunIds : \E t \in Tasks(r) : InsertEmailLog(r, t, "ok")
    \/ \E r \in RunIds : \E t \in Tasks(r) : UpdateEmailLog(r, t, "ok")
    \/ \E r \in RunIds : \E t \in Tasks(r) : SendMail(r, t, "ok")
    \/ \E r \in RunIds : \E t \in Tasks(r) : InsertActivity(r, t, "ok")
    \/ \E r \in RunIds : \E t \in Tasks(r) : UpdateEnrollment(r, t, "ok")
    \/ \E r \in RunIds : AwaitBatch(r)
    \/ \E t \in EnrollTimes : t > now /\ Tick(t - now)

SpecEnroll == InitEnroll /\ [][NextEnroll]_vars

-----------------------------------------------------------------------------
(* Two invocations of POST that may overlap in time (two users, or a user    *)
(* and a scheduler, press the trigger): one enrollment at step 0 of a        *)
(* 2-step sequence; no call fails, nobody intervenes, the clock stands.      *)

OverlapRuns == {1, 2}

InitOverlap ==
    /\ now = 0
    /\ rows = [id \in {1} |-> NewEnrollment("s1", 1, 0)]
    /\ contacts = [id \in {1} |-> Contact("x", Str("Ann"), Null)]
    /\ sequences = [s \in {"s1"} |->
                      [steps |-> <<Step("t1", 0, "days"), Step("t2", 1, "hours")>>,
                       smtp_config_id |-> "a1",
                       enrolled_count |-> CountEnrollments(rows, s)]]
    /\ templates = [id \in {"t1", "t2"} |-> Template(HelloBody)]
    /\ smtp_configs = [a \in {"a1"} |-> [smtp_pass_encrypted |-> "good"]]
    /\ emails = {}
    /\ sent = {}
    /\ activities = {}
    /\ runs = [r \in OverlapRuns |-> IdleRun]
    /\ runNo = 0
    /\ faults = 0
    /\ manual = 0
    /\ send = IdleSend

NextOverlap ==
    \/ \E r \in OverlapRuns : POST(r, TRUE, "ok")
    \/ \E r \in OverlapRuns : \E t \in Tasks(r) : FetchTemplate(r, t, "ok")
    \/ \E r \in OverlapRuns : \E t \in Tasks(r) : FetchSmtpConfig(r, t, "ok")
    \/ \E r \in OverlapRuns : \E t \in Tasks(r) : InsertEmailLog(r, t, "ok")
    \/ \E r \in OverlapRuns : \E t \in Tasks(r) : UpdateEmailLog(r, t, "ok")
    \/ \E r \in OverlapRuns : \E t \in Tasks(r) : SendMail(r, t, "ok")
    \/ \E r \in OverlapRuns : \E t \in Tasks(r) : InsertActivity(r, t, "ok")
    \/ \E r \in OverlapRuns : \E t \in Tasks(r) : UpdateEnrollment(r, t, "ok")
    \/ \E r \in OverlapRuns : AwaitBatch(r)

SpecOverlap == InitOverlap /\ [][NextOverlap]_vars

-----------------------------------------------------------------------------
(* Progress: the trigger is invoked again and again, the clock reaches every *)
(* next_send_at, no call fails and nobody intervenes.  The enrollments are   *)
(* at any step of their sequence (the first one also past the last step),    *)
(* the even ones active or paused.  An invocation that finds nothing due     *)
(* changes no row and is left out, as is a clock reading at which nothing    *)
(* becomes due.                                                              *)

InitLive ==
    \E k \in 0..2, st \in {"active", "paused"} :
        /\ now = 0
        /\ rows = [id \in 1..NumEnr |->
                     IF id % 2 = 1
                     THEN [NewEnrollment("s1", id, 0) EXCEPT !.current_step = k]
                     ELSE [NewEnrollment("s2", id, 0) EXCEPT !.status = st]]
        /\ contacts = [id \in 1..NumEnr |-> Contact("x", Str("Ann"), Null)]
        /\ InitTables("ok")
        /\ emails = {}
        /\ sent = {}
        /\ activities = {}
        /\ runs = [r \in RunIds |-> IdleRun]
        /\ runNo = 0
        /\ faults = 0
        /\ manual = 0
        /\ send = IdleSend

\* the trigger is invoked while something is due
Trigger ==
    \E r \in RunIds :
        /\ \E id \in DOMAIN rows : IsDue(rows[id], now)
        /\ POST(r, TRUE, "ok")

\* the awaited calls of the invocations in flight return
Advance ==
    \/ \E r \in RunIds : \E t \in Tasks(r) : FetchTemplate(r, t, "ok")
    \/ \E r \in RunIds : \E t \in Tasks(r) : FetchSmtpConfig(r, t, "ok")
    \/ \E r \in RunIds : \E t \in Tasks(r) : InsertEmailLog(r, t, "ok")
    \/ \E r \in RunIds : \E t \in Tasks(r) : UpdateEmailLog(r, t, "ok")
    \/ \E r \in RunIds : \E t \in Tasks(r) : SendMail(r, t, "ok")
    \/ \E r \in RunIds : \E t \in Tasks(r) : InsertActivity(r, t, "ok")
    \/ \E r \in RunIds : \E t \in Tasks(r) : UpdateEnrollment(r, t, "ok")
    \/ \E r \in RunIds : \E t \in Tasks(r) : CompleteEnrollment(r, t, "ok")
    \/ \E r \in RunIds : AwaitBatch(r)

\* the clock reaches the next_send_at of an active enrollment
Elapse ==
    \E id \in DOMAIN rows :
        /\ rows[id].status = "active"
        /\ rows[id].next_send_at # NULL
        /\ rows[id].next_send_at > now
        /\ Tick(rows[id].next_send_at - now)

NextLive == Trigger \/ Advance \/ Elapse

SpecLive ==
    /\ InitLive
    /\ [][NextLive]_vars
    /\ WF_vars(Trigger)
    /\ WF_vars(Advance)
    /\ WF_vars(Elapse)

-----------------------------------------------------------------------------
(* The advancer and the single-message endpoint side by side: the initial   *)
(* database of Spec, every call of either free to fail, nobody intervening. *)

NextSend ==
    \/ \E user \in BOOLEAN, complete \in BOOLEAN, a \in Accounts :
          SendPOST(user, complete, a)
    \/ \E o \in Outcomes : SendInsertEmail(o)
    \/ \E o \in Outcomes : SendUpdateEmail(o)
    \/ \E o \in Outcomes : SendSendMail(o)
    \/ \E o \in Outcomes : SendInsertActivity(o)
    \/ \E r \in RunIds, user \in BOOLEAN, o \in Outcomes : POST(r, user, o)
    \/ \E r \in RunIds : \E t \in Tasks(r), o \in Outcomes : FetchTemplate(r, t, o)
    \/ \E r \in RunIds : \E t \in Tasks(r), o \in Outcomes : FetchSmtpConfig(r, t, o)
    \/ \E r \in RunIds : \E t \in Tasks(r), o \in Outcomes : InsertEmailLog(r, t, o)
    \/ \E r \in RunIds : \E t \in Tasks(r), o \in Outcomes : UpdateEmailLog(r, t, o)
    \/ \E r \in RunIds : \E t \in Tasks(r), o \in Outcomes : SendMail(r, t, o)
    \/ \E r \in RunIds : \E t \in Tasks(r), o \in Outcomes : InsertActivity(r, t, o)
    \/ \E r \in RunIds : \E t \in Tasks(r), o \in Outcomes : UpdateEnrollment(r, t, o)
    \/ \E r \in RunIds : AwaitBatch(r)

SpecSend == Init /\ [][NextSend]_vars

-----------------------------------------------------------------------------
(* Properties of the advancer and the runner *)

\* the messages sent by the invocation of the advancer that is task t of run r
SentFor(r, t) == {m \in sent : m.email = EmailId(r, t)}

Returned(r, t) == runs[r].tasks[t].pc = "done"

\* C1: an invocation on an enrollment with current_step < len(steps) that
\* returns 'success' has sent a message for that step and has left the
\* persisted row with current_step one higher than before (no manual
\* operation interfering).
C1_SuccessMeansAdvanced ==
    \A r \in RunIds : \A t \in Tasks(r) :
        LET e == Enrollment(r, t)
        IN  ( /\ manual = 0
              /\ Returned(r, t)
              /\ runs[r].tasks[t].status = "success"
              /\ e.current_step < Len(e.sequence.steps) )
            => /\ \E m \in SentFor(r, t) : m.step = e.current_step
               /\ e.id \in DOMAIN rows
               /\ rows[e.id].current_step = e.current_step + 1

\* C2: an invocation that returns 'error' leaves current_step, status and
\* next_send_at of the enrollment row as they were when the run read it (no
\* manual operation interfering).
C2_ErrorLeavesEnrollment ==
    \A r \in RunIds : \A t \in Tasks(r) :
        LET e == Enrollment(r, t)
        IN  ( /\ manual = 0
              /\ Returned(r, t)
              /\ runs[r].tasks[t].status = "error" )
            => /\ e.id \in DOMAIN rows
               /\ rows[e.id].current_step = e.current_step
               /\ rows[e.id].status = e.status
               /\ rows[e.id].next_send_at = e.next_send_at

\* C2 witness: an invocation failed after its message was sent.
C2_Witness ==
    \E r \in RunIds : \E t \in Tasks(r) :
        /\ manual = 0
        /\ send = IdleSend
        /\ Returned(r, t)
        /\ runs[r].tasks[t].status = "error"
        /\ SentFor(r, t) # {}

\* C5: an invocation on an enrollment with current_step >= len(steps) that
\* returns sends nothing and leaves the row with status = completed and
\* next_send_at = null (stated here for the runs in which no call fails).
C5_CompletionIdempotent ==
    [][\A r \in RunIds : \A t \in Tasks(r) :
          ( /\ runs'[r].no = runs[r].no
            /\ faults' = 0
            /\ runs[r].tasks[t].pc = "complete"
            /\ runs'[r].tasks[t].pc = "done"
            /\ runs'[r].tasks[t].status = "success"
            /\ Enrollment(r, t).id \in DOMAIN rows' )
          => /\ SentFor(r, t)' = {}
             /\ rows'[Enrollment(r, t).id].status = "completed"
             /\ rows'[Enrollment(r, t).id].next_send_at = NULL]_vars

\* C6, the query: the enrollments a run hands to the advancer are exactly the
\* rows that are active and have next_send_at <= now or null when it queries.
C6_QueryExact ==
    \A r \in RunIds :
        (runs'[r].no # runs[r].no /\ runs'[r].response.status \notin {401, 500})
        => {runs'[r].enrollments[k].id : k \in 1..Len(runs'[r].enrollments)}
           = {id \in DOMAIN rows :
                /\ rows[id].status = "active"
                /\ (rows[id].next_send_at = NULL \/ rows[id].next_send_at <= now)}

\* C6, the sends: a run sends only to enrollments it read as active and due.
C6_SentOnlyDue ==
    \A r \in RunIds : \A m \in sent :
        m.email[1] = runs[r].no
        => \E t \in Tasks(r) :
              /\ Enrollment(r, t).id = m.id
              /\ runs[r].tasks[t].pc # "pending"
              /\ Enrollment(r, t).status = "active"
              /\ \/ Enrollment(r, t).next_send_at = NULL
                 \/ Enrollment(r, t).next_send_at <= runs[r].at

\* C6: a run invokes the advancer on exactly the enrollments that are active
\* and due at the time of its query, and sends to no other.
C6_DueSelection == []C6_SentOnlyDue /\ [][C6_QueryExact]_vars

\* C6 witness: a finished run has sent a message while an active enrollment
\* whose next_send_at is in the future stayed out of it.
C6_Witness ==
    \E r \in RunIds :
        /\ runs[r].phase = "done"
        /\ \E m \in sent : m.email[1] = runs[r].no
        /\ \E id \in DOMAIN rows :
              /\ rows[id].status = "active"
              /\ rows[id].next_send_at # NULL
              /\ rows[id].next_send_at > now
              /\ \A t \in Tasks(r) : Enrollment(r, t).id # id

\* C7: an invocation of the advancer that returns never moves current_step
\* above the number of steps, and when it leaves current_step at or above it
\* the row has status = completed and next_send_at = null (stated here for the
\* runs in which no call fails).
C7_StepBound ==
    [][\A r \in RunIds : \A t \in Tasks(r) :
          LET e == Enrollment(r, t)
          IN  ( /\ runs'[r].no = runs[r].no
                /\ faults' = 0
                /\ runs[r].tasks[t].pc # "done"
                /\ runs'[r].tasks[t].pc = "done"
                /\ runs'[r].tasks[t].status = "success"
                /\ e.id \in DOMAIN rows' )
              => /\ (rows'[e.id].current_step # rows[e.id].current_step
                       => rows'[e.id].current_step <= Len(e.sequence.steps))
                 /\ (rows'[e.id].current_step >= Len(e.sequence.steps)
                       => /\ rows'[e.id].status = "completed"
                          /\ rows'[e.id].next_send_at = NULL)]_vars

\* C9: after a run in which the send of an enrollment failed, the row is as
\* the run read it (active, due, same step) and nothing was sent for it in
\* that run; the next run that queries selects it again at the same step.
C9_RetryNextRun ==
    /\ \A r \in RunIds : \A t \in Tasks(r) :
          LET e == Enrollment(r, t)
          IN  ( /\ manual = 0
                /\ Returned(r, t)
                /\ runs[r].tasks[t].message = "send_failed" )
              => /\ SentFor(r, t) = {}
                 /\ e.id \in DOMAIN rows
                 /\ rows[e.id].status = "active"
                 /\ rows[e.id].current_step = e.current_step
                 /\ rows[e.id].next_send_at = e.next_send_at
                 /\ IsDue(rows[e.id], now)
    /\ \A r \in RunIds : \A m \in emails :
          ( /\ manual = 0
            /\ runs[r].no = m.id[1] + 1
            /\ runs[r].response.status \notin {401, 500}
            /\ \A x \in sent : x.email # m.id )
          => \E t \in Tasks(r) :
                /\ Enrollment(r, t).id = m.enrollment_id
                /\ Enrollment(r, t).current_step = m.step

\* C9 witness: the second run has sent the step whose send the first run
\* attempted and did not complete.
C9_Witness ==
    \E r \in RunIds : \E t \in Tasks(r) : \E m \in emails :
        /\ manual = 0
        /\ send = IdleSend
        /\ runs[r].no = 2
        /\ m.id = <<1, Enrollment(r, t).id>>
        /\ m.step = Enrollment(r, t).current_step
        /\ \A x \in sent : x.email # m.id
        /\ \E x \in SentFor(r, t) : x.step = m.step

\* the template of the step the enrollment is at does not exist
MissingTemplate(e) ==
    /\ e.current_step < Len(e.sequence.steps)
    /\ CurrentStep(e).template_id \notin DOMAIN templates

\* contact, template, sending account and credential of the enrollment resolve
Resolvable(e) ==
    /\ e.contact.email # ""
    /\ \/ e.current_step >= Len(e.sequence.steps)
       \/ /\ CurrentStep(e).template_id \in DOMAIN templates
          /\ e.sequence.smtp_config_id \in DOMAIN smtp_configs
          /\ smtp_configs[e.sequence.smtp_config_id].smtp_pass_encrypted = "good"

\* C3: in a run over N due enrollments of which exactly one has a missing
\* template, the others resolving and no call failing, the invocation on
\* the enrollment with the missing template returns 'error' and leaves its
\* current_step as it was, and the run reports N details, one 'error' (that
\* enrollment) and N - 1 'success'.
C3_BatchIsolation ==
    \A r \in RunIds :
        LET run == runs[r]
            N == Len(run.enrollments)
            missing == {t \in 1..N : MissingTemplate(run.enrollments[t])}
        IN  ( /\ faults = 0
              /\ manual = 0
              /\ send = IdleSend
              /\ Cardinality(missing) = 1
              /\ \A t \in (1..N) \ missing : Resolvable(run.enrollments[t]) )
            => /\ \A t \in missing :
                     run.tasks[t].pc = "done"
                     => /\ run.tasks[t].status = "error"
                        /\ run.enrollments[t].id \in DOMAIN rows
                        /\ rows[run.enrollments[t].id].current_step
                             = run.enrollments[t].current_step
               /\ run.phase = "done"
                  => /\ Len(run.response.details) = N
                     /\ run.response.processed = N
                     /\ \A t \in 1..N :
                           /\ run.response.details[t].id = run.enrollments[t].id
                           /\ run.response.details[t].status
                                = IF t \in missing THEN "error" ELSE "success"
                     /\ run.response.failureCount = 1
                     /\ run.response.successCount = N - 1
                     /\ \A t \in missing :
                           /\ run.enrollments[t].id \in DOMAIN rows
                           /\ rows[run.enrollments[t].id].current_step
                                = run.enrollments[t].current_step

\* C3 witness: a run over BATCH_SIZE + 1 enrollments has finished, the
\* enrollment of the second batch being the one that failed.
C3_Witness ==
    \E r \in RunIds :
        /\ runs[r].phase = "done"
        /\ runs[r].response.processed = BATCH_SIZE + 1
        /\ runs[r].response.details[BATCH_SIZE + 1].status = "error"
        /\ runs[r].response.details[1].status = "success"

\* C4: within one run the enrollments that share a sending account cause one
\* credential decryption and one transport construction in total.
C4_OneTransportPerAccount ==
    \A r \in RunIds : \A a \in Accounts :
        /\ runs[r].decrypts[a] <= 1
        /\ runs[r].creates[a] <= 1

\* the messages run number n has sent for a step
SentBy(n, step) == {m \in sent : m.email[1] = n /\ m.step = step}

\* C8 as stated: the run at T0 = 0 sends step 0 only and leaves current_step
\* = 1 and next_send_at = T0 + 3 days; a run at T0 + 1 hour processes
\* nothing; a run at T0 + 3 days + 1 second, step 1 not sent before it, sends
\* step 1 and leaves current_step = 2 and status = completed.
C8_Scenario ==
    \A r \in RunIds :
        LET run == runs[r]
        IN  /\ (run.no = 1 /\ run.phase = "done")
               => /\ Cardinality(sent) = 1
                  /\ Cardinality(SentBy(1, 0)) = 1
                  /\ rows[1].current_step = 1
                  /\ rows[1].next_send_at = 3 * Day
            /\ (run.no >= 2 /\ run.at = Hour)
               => run.enrollments = <<>>
            /\ ( /\ run.no >= 2
                 /\ run.at = 3 * Day + 1
                 /\ run.phase = "done"
                 /\ \A m \in sent : m.step = 1 => m.email[1] = run.no )
               => /\ Cardinality(SentBy(run.no, 1)) = 1
                  /\ rows[1].current_step = 2
                  /\ rows[1].status = "completed"

\* C8 amended, the states: the first run sends step 0 only and leaves
\* current_step = 1 and next_send_at between T0 + 3 days and now + 3 days; a
\* later run that starts before T0 + 3 days processes nothing; a later run
\* that processes the enrollment sends step 1 once and leaves current_step =
\* 2, status = completed, next_send_at = null.
C8_States ==
    \A r \in RunIds :
        LET run == runs[r]
        IN  /\ (run.no = 1 /\ run.phase = "done")
               => /\ Cardinality(sent) = 1
                  /\ Cardinality(SentBy(1, 0)) = 1
                  /\ rows[1].current_step = 1
                  /\ rows[1].status = "active"
                  /\ rows[1].next_send_at >= run.at + 3 * Day
                  /\ rows[1].next_send_at <= now + 3 * Day
            /\ (run.no >= 2 /\ run.at < 3 * Day)
               => run.enrollments = <<>>
            /\ (run.no >= 2 /\ run.phase = "done" /\ run.enrollments # <<>>)
               => /\ Cardinality(SentBy(run.no, 1)) = 1
                  /\ Cardinality(sent) = 2
                  /\ rows[1].current_step = 2
                  /\ rows[1].status = "completed"
                  /\ rows[1].next_send_at = NULL

\* C8 amended, the steps: the update after step 0 carries next_send_at = the
\* clock reading at that moment + 3 days, and a later run processes the
\* enrollment exactly if it starts at or after next_send_at.
C8_Steps ==
    \A r \in RunIds :
        /\ ( /\ runs'[r].no = runs[r].no
             /\ runs[r].no = 1
             /\ runs[r].tasks[1].pc = "activity"
             /\ runs'[r].tasks[1].pc = "update_enrollment" )
           => runs'[r].tasks[1].updates.next_send_at = now + 3 * Day
        /\ (runs'[r].no # runs[r].no /\ rows[1].current_step = 1)
           => (runs'[r].enrollments # <<>> <=> rows[1].next_send_at <= now)

\* C8 amended: as C8 with next_send_at = t + 3 days, t >= T0 being the clock
\* reading when the advancer computes the update after the send, and the run
\* at T0 + 3 days + 1 second processing the enrollment exactly if it starts
\* at or after that next_send_at.
C8_ScenarioAmended == []C8_States /\ [][C8_Steps]_vars

\* C8 witness: the third run, at T0 + 3 days + 1 second, has sent step 1 and
\* completed the enrollment.
C8_Witness ==
    \E r \in RunIds :
        /\ runs[r].no = 3
        /\ runs[r].at = 3 * Day + 1
        /\ runs[r].phase = "done"
        /\ Cardinality(SentBy(3, 1)) = 1
        /\ rows[1].current_step = 2
        /\ rows[1].status = "completed"

\* C10: an attempt whose emails row was not created sends nothing and reports
\* an error, in the advancer and in the single-message endpoint.
C10_NoLogNoSend ==
    /\ \A r \in RunIds : \A t \in Tasks(r) :
          (\A m \in emails : m.id # EmailId(r, t))
          => /\ SentFor(r, t) = {}
             /\ (Returned(r, t) => runs[r].tasks[t].status = "error")
    /\ (send.no > 0 /\ \A m \in emails : m.id # SendEmailId)
       => /\ \A x \in sent : x.email # SendEmailId
          /\ (send.pc = "done" => send.status >= 400 /\ send.error # "")

\* C10 witness: the emails insert of an advancer invocation and that of a
\* request to the endpoint have both failed.
C10_Witness ==
    /\ \E r \in RunIds : \E t \in Tasks(r) :
          /\ Returned(r, t)
          /\ runs[r].tasks[t].message = "email_log_failed"
    /\ send.pc = "done"
    /\ send.error = "Failed to initialize email tracking"

\* C11: after a run completes, every emails row (folder 'sent') the advancer
\* created in it records a message whose network send succeeded.
C11_LogMeansSent ==
    \A r \in RunIds :
        runs[r].phase = "done"
        => \A m \in emails :
              m.id[1] = runs[r].no => \E x \in sent : x.email = m.id

\* the invocations of the advancer that have been called and have not returned
InFlight(run) ==
    {t \in 1..Len(run.enrollments) : run.tasks[t].pc \notin {"pending", "done"}}

\* the batch of the t-th enrollment of the due list: 0 for the first
\* BATCH_SIZE enrollments, 1 for the next BATCH_SIZE, ...
BatchIndex(t) == (t - 1) \div BATCH_SIZE

\* C12: at most BATCH_SIZE invocations of the advancer are in flight; the
\* members of one batch (BATCH_SIZE consecutive enrollments of the due list)
\* are called together, and no member of a batch is called before every member
\* of the batches before it has returned.
C12_BatchesSequential ==
    \A r \in RunIds :
        LET run == runs[r]
            N == Len(run.enrollments)
        IN  /\ Cardinality(InFlight(run)) <= BATCH_SIZE
            /\ \A t, u \in 1..N :
                  /\ (BatchIndex(t) < BatchIndex(u) /\ run.tasks[u].pc # "pending")
                     => run.tasks[t].pc = "done"
                  /\ BatchIndex(t) = BatchIndex(u)
                     => (run.tasks[t].pc = "pending" <=> run.tasks[u].pc = "pending")

\* C12 witness: the enrollment of the second batch is in flight, alone, after
\* the BATCH_SIZE invocations of the first batch have returned.
C12_Witness ==
    \E r \in RunIds :
        /\ Len(runs[r].enrollments) = BATCH_SIZE + 1
        /\ InFlight(runs[r]) = {BATCH_SIZE + 1}
        /\ \A t \in 1..BATCH_SIZE : runs[r].tasks[t].pc = "done"

\* C13: the report of a run over a non-empty due list has one details entry
\* per due enrollment, with the same ids in the order of the enumeration;
\* processed is the number of entries, successCount and failureCount are the
\* numbers of 'success' and 'error' entries and add up to processed.
C13_ReportCounts ==
    \A r \in RunIds :
        LET run == runs[r]
            rep == run.response
            N == Len(run.enrollments)
        IN  (run.phase = "done" /\ N > 0)
            => /\ rep.status = 200
               /\ rep.success = "true"
               /\ Len(rep.details) = N
               /\ \A k \in 1..N :
                     /\ rep.details[k].id = run.enrollments[k].id
                     /\ rep.details[k].status = run.tasks[k].status
               /\ rep.processed = Len(rep.details)
               /\ rep.successCount
                    = Cardinality({k \in 1..Len(rep.details) :
                                      rep.details[k].status = "success"})
               /\ rep.failureCount
                    = Cardinality({k \in 1..Len(rep.details) :
                                      rep.details[k].status = "error"})
               /\ rep.successCount + rep.failureCount = rep.processed

\* C13 witness: the report of a run over two batches, with an 'error' entry
\* in the middle of the first batch.
C13_Witness ==
    \E r \in RunIds :
        /\ runs[r].phase = "done"
        /\ runs[r].response.processed = BATCH_SIZE + 1
        /\ runs[r].response.successCount = BATCH_SIZE
        /\ runs[r].response.failureCount = 1
        /\ runs[r].response.details[3].status = "error"
        /\ runs[r].response.details[3].id = 3

\* C14, the call: an authenticated call whose query succeeds while no row is
\* active and due answers at once with a success report of processed = 0 and
\* no details, invokes no advancer and writes nothing.
C14_EmptyCall ==
    \A r \in RunIds :
        ( /\ runs'[r].no # runs[r].no
          /\ runs'[r].response.status \notin {401, 500}
          /\ \A id \in DOMAIN rows :
                \/ rows[id].status # "active"
                \/ (rows[id].next_send_at # NULL /\ rows[id].next_send_at > now) )
        => /\ runs'[r].phase = "done"
           /\ runs'[r].response.status = 200
           /\ runs'[r].response.success = "true"
           /\ runs'[r].response.processed = 0
           /\ runs'[r].response.details = <<>>
           /\ runs'[r].tasks = <<>>
           /\ runs'[r].transporters = {}
           /\ UNCHANGED <<rows, emails, sent, activities>>

\* C14, the run: a run that reported processed = 0 has looked up no template,
\* constructed no transport, inserted no emails row and sent nothing.
C14_EmptyRun ==
    \A r \in RunIds :
        (runs[r].response.status = 200 /\ runs[r].response.processed = 0)
        => /\ runs[r].phase = "done"
           /\ runs[r].tasks = <<>>
           /\ \A a \in Accounts : runs[r].decrypts[a] = 0 /\ runs[r].creates[a] = 0
           /\ \A m \in emails : m.id[1] # runs[r].no
           /\ \A m \in sent : m.email[1] # runs[r].no
           /\ \A m \in activities : m.email[1] # runs[r].no

\* C14: when no enrollment is due the run reports processed = 0 as a success
\* and performs no template lookup, no transport construction, no emails
\* insert and no send.
C14_NothingDue == []C14_EmptyRun /\ [][C14_EmptyCall]_vars

\* C14 witness: after a run that sent a message, a later run found nothing
\* due among the remaining rows and reported processed = 0.
C14_Witness ==
    \E r \in RunIds :
        /\ runs[r].no >= 2
        /\ runs[r].phase = "done"
        /\ runs[r].response.status = 200
        /\ runs[r].response.success = "true"
        /\ runs[r].response.processed = 0
        /\ DOMAIN rows # {}
        /\ sent # {}
        /\ \A m \in sent : m.email[1] < runs[r].no

\* C15: a run whose due-set query failed has invoked no advancer and answers
\* with a non-2xx status and a body { success: false, error: string }; a run
\* that invoked the advancer answers with the report, whatever the
\* invocations returned.
C15_TopLevelFailure ==
    \A r \in RunIds :
        LET run == runs[r]
        IN  /\ run.response.status = 500
               => /\ run.tasks = <<>>
                  /\ \A m \in emails : m.id[1] # run.no
                  /\ \A m \in sent : m.email[1] # run.no
                  /\ run.response.error # ""
                  /\ run.response.success = "false"
            /\ (run.phase = "done" /\ run.tasks # <<>>)
               => /\ run.response.status = 200
                  /\ run.response.success = "true"

\* C16: a transport failure of a send is reported with the message of its
\* cause (authentication, then timeout, then SMTP rejection, then the error's
\* own message), by the advancer, which leaves the enrollment row as the run
\* read it, and by the single-message endpoint.
C16_ClassifiedFailure ==
    /\ \A r \in RunIds : \A t \in Tasks(r) :
          LET task == runs[r].tasks[t]
              e == Enrollment(r, t)
          IN  (Returned(r, t) /\ task.err # NoError)
              => /\ task.status = "error"
                 /\ task.message = Classify(task.err)
                 /\ e.id \in DOMAIN rows
                 /\ rows[e.id].current_step = e.current_step
                 /\ rows[e.id].status = e.status
                 /\ rows[e.id].next_send_at = e.next_send_at
    /\ (send.pc = "done" /\ send.err # NoError)
       => /\ send.status = 500
          /\ send.error = Classify(send.err)

\* the credential of the sending account of the enrollment cannot be decrypted
CorruptAccount(e) ==
    /\ e.sequence.smtp_config_id \in DOMAIN smtp_configs
    /\ smtp_configs[e.sequence.smtp_config_id].smtp_pass_encrypted = "corrupt"

\* C17: an enrollment whose account's credential cannot be decrypted gets an
\* error result and keeps its step, no transport is cached for that account,
\* and every other enrollment of the run, in the same batch and in the later
\* ones, is processed (its message sent) and reported.
C17_DecryptIsolation ==
    \A r \in RunIds :
        LET run == runs[r]
            N == Len(run.enrollments)
        IN  /\ \A t \in 1..N :
                  CorruptAccount(run.enrollments[t])
                  => /\ run.enrollments[t].sequence.smtp_config_id
                          \notin run.transporters
                     /\ run.creates[run.enrollments[t].sequence.smtp_config_id] = 0
                     /\ SentFor(r, t) = {}
                     /\ Returned(r, t)
                        => /\ run.tasks[t].status = "error"
                           /\ run.tasks[t].message = "decrypt_failed"
                           /\ rows[run.enrollments[t].id].current_step
                                = run.enrollments[t].current_step
            /\ run.phase = "done"
               => /\ Len(run.response.details) = N
                  /\ \A t \in 1..N :
                        /\ run.response.details[t].id = run.enrollments[t].id
                        /\ run.response.details[t].status
                             = IF CorruptAccount(run.enrollments[t])
                               THEN "error" ELSE "success"
                        /\ ~CorruptAccount(run.enrollments[t])
                           => /\ SentFor(r, t) # {}
                              /\ rows[run.enrollments[t].id].current_step
                                   = run.enrollments[t].current_step + 1

\* C17 witness: the decryption failed for the last enrollment of the first
\* batch and again for the enrollment of the second batch, and the four other
\* enrollments were sent and reported.
C17_Witness ==
    \E r \in RunIds :
        /\ runs[r].phase = "done"
        /\ runs[r].response.processed = BATCH_SIZE + 1
        /\ runs[r].response.details[BATCH_SIZE].message = "decrypt_failed"
        /\ runs[r].response.details[BATCH_SIZE + 1].message = "decrypt_failed"
        /\ runs[r].response.successCount = BATCH_SIZE - 1
        /\ runs[r].decrypts["a2"] = 2
        /\ runs[r].transporters = {"a1"}

\* the step after the one the enrollment read by task t of run r is at
NextStepOf(r, t) ==
    Enrollment(r, t).sequence.steps[Enrollment(r, t).current_step + 2]

\* task t of run r computes the update of an enrollment that has a next step
ComputesNextSend(r, t) ==
    /\ runs'[r].no = runs[r].no
    /\ t \in Tasks(r)
    /\ runs[r].tasks[t].pc = "activity"
    /\ runs'[r].tasks[t].pc = "update_enrollment"
    /\ Enrollment(r, t).current_step + 1 < Len(Enrollment(r, t).sequence.steps)

\* C18, the update: with an explicit value v and an explicit unit, the update
\* carries next_send_at = now + v minutes, v hours or v days.
C18_Computed ==
    \A r \in RunIds : \A t \in Tasks(r) :
        ( /\ ComputesNextSend(r, t)
          /\ NextStepOf(r, t).delay_days # NULL
          /\ NextStepOf(r, t).delay_unit # "" )
        => LET v == NextStepOf(r, t).delay_days
               u == NextStepOf(r, t).delay_unit
               next_send_at == runs'[r].tasks[t].updates.next_send_at
           IN  /\ runs'[r].tasks[t].updates.has_next_send_at
               /\ u = "minutes" => next_send_at = now + v * 60
               /\ u = "hours" => next_send_at = now + v * 3600
               /\ u = "days" => next_send_at = now + v * 86400
               /\ v = 0 => next_send_at = now

\* C18, the row: once the invocation has returned, the row is at the next
\* step with that next_send_at; with the value 0 it is due from then on.
C18_Persisted ==
    \A r \in RunIds : \A t \in Tasks(r) :
        LET e == Enrollment(r, t)
            row == rows[e.id]
        IN  ( /\ Returned(r, t)
              /\ runs[r].no = 1
              /\ e.current_step + 1 < Len(e.sequence.steps) )
            => /\ row.current_step = e.current_step + 1
               /\ row.status = "active"
               /\ row.next_send_at = runs[r].tasks[t].updates.next_send_at
               /\ ( /\ e.sequence.steps[e.current_step + 2].delay_days = 0
                    /\ e.sequence.steps[e.current_step + 2].delay_unit # "" )
                  => /\ row.next_send_at >= runs[r].at
                     /\ row.next_send_at <= now

\* C18, the next run: with the value 0, the next run that queries processes
\* the enrollment.
C18_DueNextRun ==
    \A r \in RunIds :
        ( /\ runs'[r].no = 2
          /\ runs[r].no = 1
          /\ runs[r].phase = "done"
          /\ sequences["s1"].steps[2].delay_days = 0 )
        => /\ Len(runs'[r].enrollments) = 1
           /\ runs'[r].enrollments[1].id = 1
           /\ runs'[r].enrollments[1].current_step = 1

\* C18: when the step after the one just sent exists, next_send_at is the
\* clock reading plus its delay in its unit (minutes, hours or days), and a
\* value 0 gives next_send_at = now, the enrollment being due at the next run.
C18_DelayExact == []C18_Persisted /\ [][C18_Computed /\ C18_DueNextRun]_vars

\* C18 witness: the second step has the delay 2 hours, the clock has advanced
\* since the run's query, and the row carries next_send_at = now + 2 hours.
C18_Witness ==
    \E r \in RunIds :
        /\ runs[r].no = 1
        /\ runs[r].phase = "done"
        /\ runs[r].at = 0
        /\ now = Minute
        /\ sequences["s1"].steps[2].delay_days = 2
        /\ sequences["s1"].steps[2].delay_unit = "hours"
        /\ rows[1].current_step = 1
        /\ rows[1].next_send_at = Minute + 2 * Hour

\* C19: a next step without a delay value is given the value 1 (an explicit 0
\* stays 0) and one without a unit is given days: with neither, next_send_at
\* = now + 1 day.
C19_Defaults ==
    [][\A r \in RunIds : \A t \in Tasks(r) :
          ( /\ ComputesNextSend(r, t)
            /\ \/ NextStepOf(r, t).delay_days = NULL
               \/ NextStepOf(r, t).delay_unit = "" )
          => LET v == NextStepOf(r, t).delay_days
                 u == NextStepOf(r, t).delay_unit
                 value == IF v = NULL THEN 1 ELSE v
                 next_send_at == runs'[r].tasks[t].updates.next_send_at
             IN  /\ u = "" => next_send_at = now + value * 86400
                 /\ u = "minutes" => next_send_at = now + 60
                 /\ u = "hours" => next_send_at = now + 3600
                 /\ u = "days" => next_send_at = now + 86400
                 /\ (v = NULL /\ u = "") => next_send_at = now + 86400
                 /\ (v = 0 /\ u = "") => next_send_at = now]_vars

\* C19 witness: the second step has neither value nor unit and the row
\* carries next_send_at = now + 1 day.
C19_Witness ==
    \E r \in RunIds :
        /\ runs[r].no = 1
        /\ runs[r].phase = "done"
        /\ now = Hour
        /\ sequences["s1"].steps[2].delay_days = NULL
        /\ sequences["s1"].steps[2].delay_unit = ""
        /\ rows[1].current_step = 1
        /\ rows[1].next_send_at = Hour + Day

\* C20, the call: a call without an authenticated user is answered with 401
\* 'Unauthorized' at once; it queries nothing, invokes no advancer and writes
\* no row.
C20_RejectedCall ==
    \A r \in RunIds :
        (runs'[r].no # runs[r].no /\ ~runs'[r].user)
        => /\ runs'[r].phase = "done"
           /\ runs'[r].response.status = 401
           /\ runs'[r].response.error = "Unauthorized"
           /\ runs'[r].response.success # "true"
           /\ runs'[r].enrollments = <<>>
           /\ runs'[r].tasks = <<>>
           /\ UNCHANGED <<rows, emails, sent, activities>>

\* C20, afterwards: nothing was sent or written on behalf of such a call.
C20_NoEffect ==
    \A r \in RunIds :
        (runs[r].no > 0 /\ ~runs[r].user)
        => /\ runs[r].response.status = 401
           /\ runs[r].tasks = <<>>
           /\ \A a \in Accounts : runs[r].decrypts[a] = 0 /\ runs[r].creates[a] = 0
           /\ \A m \in emails : m.id[1] # runs[r].no
           /\ \A m \in sent : m.email[1] # runs[r].no
           /\ \A m \in activities : m.email[1] # runs[r].no

\* C20: an unauthenticated call to the trigger fails with 401 and has no
\* effect: no due-set query, no send, no enrollment, emails or activities
\* write.
C20_Unauthorized == []C20_NoEffect /\ [][C20_RejectedCall]_vars

\* C20 witness: an unauthenticated call was rejected while an enrollment was
\* active and due, and nothing has been sent or written.
C20_Witness ==
    \E r \in RunIds :
        /\ runs[r].no > 0
        /\ ~runs[r].user
        /\ runs[r].response.status = 401
        /\ \E id \in DOMAIN rows : IsDue(rows[id], now) /\ rows[id].current_step = 0
        /\ emails = {}
        /\ sent = {}

\* the text a placeholder stands for: the contact's field, empty if null
FieldOf(token, contact) ==
    IF token = "{{first_name}}"
    THEN (IF contact.first_name.isNull THEN "" ELSE contact.first_name.text)
    ELSE IF token = "{{last_name}}"
    THEN (IF contact.last_name.isNull THEN "" ELSE contact.last_name.text)
    ELSE IF token = "{{email}}" THEN contact.email
    ELSE token

RECURSIVE Substituted(_, _)
\* the template body with every placeholder replaced by the contact's field
Substituted(body, contact) ==
    IF body = <<>> THEN <<>>
    ELSE (IF FieldOf(Head(body), contact) = "" THEN <<>>
          ELSE <<FieldOf(Head(body), contact)>>)
           \o Substituted(Tail(body), contact)

\* C21: the body logged and the body sent are the template body with every
\* occurrence of {{first_name}}, {{last_name}} and {{email}} replaced by the
\* contact's field, a null field giving the empty string.
C21_AllOccurrences ==
    /\ \A m \in emails :
          m.body_html
            = Substituted(templates["t1"].body_html, contacts[m.enrollment_id])
    /\ \A m \in sent :
          m.html = Substituted(templates["t1"].body_html, contacts[m.id])

-----------------------------------------------------------------------------
(* C22 *)

\* run r starts with this step and its query succeeds
Queries(r) ==
    /\ runs'[r].no = runs[r].no + 1
    /\ runs'[r].response.status \notin {401, 500}

\* C22: a row created by the enrollment operation has status = active,
\* current_step = 0 and next_send_at = the time of its creation; and every
\* run that starts at or after the creation of a row (the row still as it
\* was created) has the row in its due list.
C22_CreatedDue ==
    /\ [][\A id \in DOMAIN rows' \ DOMAIN rows :
             /\ rows'[id].status = "active"
             /\ rows'[id].current_step = 0
             /\ rows'[id].next_send_at = now]_vars
    /\ [][\A r \in RunIds :
             Queries(r)
             => \A id \in DOMAIN rows :
                   (rows[id].status = "active" /\ rows[id].current_step = 0)
                   => \E k \in 1..Len(runs'[r].enrollments) :
                         runs'[r].enrollments[k].id = id]_vars

\* a row created after the clock has advanced has been taken up by a run and
\* its first step has been sent
C22_Witness ==
    \E r \in RunIds : \E t \in Tasks(r) :
        /\ Enrollment(r, t).current_step = 0
        /\ Enrollment(r, t).next_send_at = Hour
        /\ runs[r].at = Hour
        /\ SentFor(r, t) # {}

-----------------------------------------------------------------------------
(* C23 *)

\* task t of run r writes the enrollment row at the end of an invocation
\* that went through the send
UpdatesAfterSend(r, t) ==
    /\ runs'[r].no = runs[r].no
    /\ t \in Tasks(r)
    /\ runs[r].tasks[t].pc = "update_enrollment"
    /\ runs'[r].tasks[t].pc = "done"
    /\ rows' # rows

\* C23: the effects of an invocation that sends come in the order email-log
\* row inserted, tracked body persisted on that row, message sent, activity
\* entry recorded, enrollment row updated: a sent message has its email-log
\* row with the tracked body, an activity entry has its message, and the
\* enrollment row is updated only when the message is sent and the activity
\* entry recorded.
C23_Order ==
    /\ [](\A m \in sent : \E e \in emails : e.id = m.email /\ e.tracked)
    /\ [](\A a \in activities : \E m \in sent : m.email = a.email)
    /\ [][\A r \in RunIds : \A t \in Tasks(r) :
             UpdatesAfterSend(r, t)
             => /\ SentFor(r, t) # {}
                /\ \E a \in activities : a.email = EmailId(r, t)]_vars

-----------------------------------------------------------------------------
(* C24 *)

\* C24: over the runs of a behaviour, which follow one another, at most one
\* message is sent per pair of enrollment and step index, whatever call
\* fails or throws.
C24_OncePerStep ==
    \A m1, m2 \in sent :
        (m1.id = m2.id /\ m1.step = m2.step) => m1.email = m2.email

-----------------------------------------------------------------------------
(* C25 *)

\* C25: when two invocations of the trigger overlap over the same due
\* enrollment, they never both send the same step of it, and once both are
\* over current_step is exactly one higher than before.
C25_OverlapOnce ==
    \A r1, r2 \in OverlapRuns : \A t1 \in Tasks(r1), t2 \in Tasks(r2) :
        ( /\ r1 # r2
          /\ Enrollment(r1, t1).id = Enrollment(r2, t2).id
          /\ Enrollment(r1, t1).current_step = Enrollment(r2, t2).current_step )
        => /\ ~(SentFor(r1, t1) # {} /\ SentFor(r2, t2) # {})
           /\ (runs[r1].phase = "done" /\ runs[r2].phase = "done")
              => rows[Enrollment(r1, t1).id].current_step
                   = Enrollment(r1, t1).current_step + 1

-----------------------------------------------------------------------------
(* C26 *)

\* C26: a message is sent only for an enrollment whose row exists and has
\* status = active at the moment of the send, also when the row was paused
\* or removed after the due query of the run.
C26_ActiveAtSend ==
    [][\A m \in sent' \ sent :
          /\ m.id \in DOMAIN rows
          /\ rows[m.id].status = "active"]_vars

-----------------------------------------------------------------------------
(* C27 *)

\* task t of run r performs the enrollment update of an invocation whose
\* next step exists
AdvancesToStep(r, t) ==
    /\ runs'[r].no = runs[r].no
    /\ t \in Tasks(r)
    /\ runs[r].tasks[t].pc = "update_enrollment"
    /\ runs'[r].tasks[t].pc = "done"
    /\ Enrollment(r, t).current_step + 1 < Len(Enrollment(r, t).sequence.steps)

\* C27: the update that advances an enrollment to a step that exists carries
\* no status and leaves every stored status (and every other row) as it is,
\* so a pause written meanwhile stays; and when the processor changes a
\* stored status, it is to completed, on the last-step path or the
\* no-more-steps path.
C27_StatusKept ==
    /\ [][\A r \in RunIds : \A t \in Tasks(r) :
             AdvancesToStep(r, t)
             => /\ runs[r].tasks[t].updates.status = ""
                /\ DOMAIN rows' = DOMAIN rows
                /\ \A id \in DOMAIN rows :
                      /\ rows'[id].status = rows[id].status
                      /\ rows'[id].sequence_id = rows[id].sequence_id
                      /\ rows'[id].contact_id = rows[id].contact_id
                      /\ id # Enrollment(r, t).id => rows'[id] = rows[id]]_vars
    /\ [][\A id \in DOMAIN rows \cap DOMAIN rows' :
             (manual' = manual /\ rows'[id].status # rows[id].status)
             => /\ rows'[id].status = "completed"
                /\ \E r \in RunIds : \E t \in Tasks(r) :
                      /\ Enrollment(r, t).id = id
                      /\ runs[r].tasks[t].pc \in {"update_enrollment", "complete"}
                      /\ Enrollment(r, t).current_step + 1
                            >= Len(Enrollment(r, t).sequence.steps)]_vars

\* an enrollment paused during the run has been advanced to its next step and
\* is still paused
C27_Witness ==
    \E r \in RunIds : \E t \in Tasks(r) :
        LET e == Enrollment(r, t)
        IN  /\ Returned(r, t)
            /\ runs[r].tasks[t].status = "success"
            /\ e.current_step + 1 < Len(e.sequence.steps)
            /\ e.id \in DOMAIN rows
            /\ rows[e.id].status = "paused"
            /\ rows[e.id].current_step = e.current_step + 1

-----------------------------------------------------------------------------
(* C28 *)

\* the configured delay of a step whose value and unit are both set, in seconds
Configured(step) ==
    step.delay_days * (CASE step.delay_unit = "minutes" -> Minute
                         [] step.delay_unit = "hours" -> Hour
                         [] step.delay_unit = "days" -> Day)

\* C28: when step k has been sent and step k + 1 exists, the update carries
\* next_send_at = the clock reading + the delay configured on step k + 1;
\* and the delay configured on step 0 is never waited for: a row at step 0
\* is due from its creation on.
C28_DelayOfNextStep ==
    /\ [][\A r \in RunIds : \A t \in Tasks(r) :
             ComputesNextSend(r, t)
             => LET k == Enrollment(r, t).current_step
                    steps == Enrollment(r, t).sequence.steps
                IN  runs'[r].tasks[t].updates.next_send_at
                      = now + Configured(steps[(k + 1) + 1])]_vars
    /\ [](\A id \in DOMAIN rows :
             rows[id].current_step = 0 => rows[id].next_send_at <= now)

\* an enrollment of the 3-step sequence has been sent its first two steps:
\* it waited the hour of the second step, not the two days of the first, and
\* now waits the 30 minutes of the third
C28_Witness ==
    \E id \in DOMAIN rows :
        /\ rows[id].current_step = 2
        /\ rows[id].next_send_at = Hour + 30 * Minute
        /\ \E m \in sent : m.id = id /\ m.step = 1

-----------------------------------------------------------------------------
(* C30 *)

\* C30: whatever rows were inserted, removed or moved to another sequence,
\* the enrolled_count of each sequence is the number of enrollment rows
\* that reference it.
C30_EnrolledCount ==
    \A s \in DOMAIN sequences :
        sequences[s].enrolled_count
          = Cardinality({id \in DOMAIN rows : rows[id].sequence_id = s})

\* two contacts were enrolled in the first sequence; the row of the first was
\* moved to the second sequence after a run had read it, the row of the
\* second was removed after its message was sent
C30_Witness ==
    /\ DOMAIN rows = {1}
    /\ rows[1].sequence_id = "s2"
    /\ \E r \in RunIds : \E t \in Tasks(r) :
          Enrollment(r, t).id = 1 /\ Enrollment(r, t).sequence_id = "s1"
    /\ \E m \in sent : m.id = 2
    /\ sequences["s1"].enrolled_count = 0
    /\ sequences["s2"].enrolled_count = 1

-----------------------------------------------------------------------------
(* C29 *)

\* C29: with the trigger invoked again and again, the clock reaching every
\* next_send_at, no failure and no manual operation, every enrollment that
\* is active eventually has status = completed and current_step = the
\* number of steps of its sequence.
C29_Completes ==
    \A id \in 1..NumEnr :
        (rows[id].status = "active")
        ~> ( /\ rows[id].status = "completed"
             /\ rows[id].current_step = Len(sequences[rows[id].sequence_id].steps) )

\* an enrollment of the 2-step sequence has been sent both steps, the second
\* after the clock reached its next_send_at, and is completed
C29_Witness ==
    \E id \in DOMAIN rows :
        /\ rows[id].status = "completed"
        /\ rows[id].current_step = 2
        /\ now = Hour
        /\ \E m \in sent : m.id = id /\ m.step = 0
        /\ \E m \in sent : m.id = id /\ m.step = 1

=============================================================================
